---------------------------- MODULE Spec2Model ----------------------------
(***************************************************************************)
(* Model of the explorer grid view (virtualized multi-select / drag grid,  *)
(* keyboard navigation) and of the double-click open dispatcher of the     *)
(* interface.                                                              *)
(*                                                                         *)
(* Items are identified by their index in explorer.items: the list only    *)
(* grows (onLoadMore) or shrinks at its end in this model, so an index     *)
(* names the same item for as long as it exists.  A DOM element is         *)
(* identified by the item it renders; it is "in the document" exactly when *)
(* the row of its item is mounted by the virtualizer.                      *)
(***************************************************************************)
EXTENDS Integers, Sequences, FiniteSets, TLC

VARIABLES
    count,              \* explorer.items.length
    columnCount,        \* grid.columnCount
    top,                \* first row mounted by the row virtualizer
    allowMultiSelect,   \* explorer.allowMultiSelect
    selectable,         \* explorerView.selectable
    dialogOpen,         \* dialogManager.isAnyDialogOpen()
    quickPreviewOpen,   \* quickPreviewStore.open
    selectedItemHashes, \* explorer.selectedItemHashes.value
    activeItem,         \* activeItem.current (Null when null)
    selectoUnselected,  \* selectoUnselected.current (the shadow set)
    selectoSelected,    \* selecto.current.getSelectedTargets()
    selectoFirstColumn, \* selectoFirstColumn.current (Undef when undefined)
    selectoLastColumn,  \* selectoLastColumn.current
    isDragSelecting,    \* explorerStore.isDragSelecting
    dragFromThumbnail,  \* dragFromThumbnail state
    drag,               \* the Selecto gesture in progress, or NoDrag
    last,               \* history: the last operation and what it started from
    explorerSelectedItems, \* [...explorer.selectedItems], in iteration order
    openOnDoubleClick,  \* explorer.settingsStore.openOnDoubleClick
    platform,           \* which of usePlatform()'s open actions are defined
    opened,             \* the last call of doubleClick and what it dispatched
    tabs,               \* AppInner's tabs state
    selectedTabIndex,   \* AppInner's selectedTabIndex state
    renderedTabIndex,   \* selectedTabIndex as the last render's closures hold it
    nextTabId,          \* the next fresh tab id
    updates,            \* setTabs updaters of router events, not yet applied
    routerEvent,        \* the last event a router gave its subscriber
    libraries,          \* the cached libraries, in the order of the list
    currentLibraryCache, \* currentLibraryCache.id (Null when there is none)
    isLoading,          \* useCachedLibraries().isLoading
    pathname,           \* the route the window is at
    requested,          \* history: the route the navigation started at
    navigation,         \* "loading" while loaders and redirects run, or "idle"
    redirects,          \* history: the redirects of the navigation so far
    broken,             \* the routes whose page throws when it renders
    wasRenderingError,  \* localStorage has the key 'was-rendering-error'
    screen,             \* "app", "error" (the error page) or "blank" (null)
    effectPending,      \* ErrorPage has rendered and its effect has not run
    timer               \* the timeout of BetterErrorBoundary is pending

gridVars == <<count, columnCount, top, allowMultiSelect, selectable, dialogOpen,
              quickPreviewOpen, selectedItemHashes, activeItem, selectoUnselected,
              selectoSelected, selectoFirstColumn, selectoLastColumn,
              isDragSelecting, dragFromThumbnail, drag, last>>

openVars == <<explorerSelectedItems, openOnDoubleClick, platform, opened>>

tabVars == <<tabs, selectedTabIndex, renderedTabIndex, nextTabId, updates,
             routerEvent>>

routeVars == <<libraries, currentLibraryCache, isLoading, pathname, requested,
               navigation, redirects>>

errorVars == <<broken, wasRenderingError, screen, effectPending, timer>>

windowVars == <<routeVars, errorVars>>

shellVars == <<tabVars, windowVars>>

vars == <<gridVars, openVars, shellVars>>

-----------------------------------------------------------------------------
(* Bounds of the model *)

MaxItems == 5
MinItems == 4
ViewRows == 2

(* Geometry of the grid, in pixels *)
ItemHeight == 4
GapY == 2
PaddingY == 2

Null == -1
Undef == -1
NoDrag == [on |-> FALSE]

-----------------------------------------------------------------------------
(* Grid geometry: useGrid / grid.getItem *)

ItemExists(i) == i >= 0 /\ i < count

ColumnOf(i) == i % columnCount

RowOf(i) == i \div columnCount

RowTop(r) == PaddingY + r * (ItemHeight + GapY)

RowBottom(r) == RowTop(r) + ItemHeight

RowCount == (count + columnCount - 1) \div columnCount

MountedRows == top .. (top + ViewRows - 1)

\* getElementById(uniqueId(item)) is an element
Mounted(i) == ItemExists(i) /\ RowOf(i) \in MountedRows

-----------------------------------------------------------------------------
(* uniqueId and the shadow set.  uniqueId(item) is a string; the shadow set *)
(* holds strings.  A string is modelled by the sequence of its characters   *)
(* (the two decimal digits of the index), and the shadow set holds either   *)
(* whole ids or single characters.                                          *)

uniqueId(i) == <<"id", i>>

IdChars(i) == <<i \div 10, i % 10>>

\* new Set(iterable): the set of the elements the iterable yields; a string
\* yields its characters
SetOfString(i) == {<<"char", IdChars(i)[k]>> : k \in DOMAIN IdChars(i)}

SetOfIds(S) == {uniqueId(i) : i \in S}

-----------------------------------------------------------------------------
(* Selection Model (useExplorer's selected items) *)

\* explorer.selectedItems: the selected hashes that name an item of the list
selectedItems == {i \in selectedItemHashes : ItemExists(i)}

\* add that takes a present item out of the set again
addSelectedItemToggles(S, i) ==
    IF i \in S THEN S \ {i} ELSE IF allowMultiSelect THEN S \cup {i} ELSE {i}

addSelectedItem(S, i) == IF allowMultiSelect THEN S \cup {i} ELSE {i}

removeSelectedItem(S, i) == S \ {i}

resetSelectedItems(items) == items

-----------------------------------------------------------------------------
(* The mutable state a handler works on, as one record, so that a handler   *)
(* and the effects React runs after it compose in program order.            *)

Cur == [sel |-> selectedItemHashes, act |-> activeItem,
        shadow |-> selectoUnselected, targets |-> selectoSelected,
        firstCol |-> selectoFirstColumn, lastCol |-> selectoLastColumn,
        top |-> top]

ExistsIn(n, i) == i >= 0 /\ i < n

MountedIn(n, cc, t, i) == ExistsIn(n, i) /\ (i \div cc) \in t .. (t + ViewRows - 1)

SetMin(S) == CHOOSE m \in S : \A x \in S : m <= x

\* getActiveItem(elements): the item of least index among the elements that
\* still have a grid item, or null
getActiveItem(elements, n) ==
    LET withItem == {e \in elements : ExistsIn(n, e)}
    IN  IF withItem = {} THEN Null ELSE SetMin(withItem)

\* The reconciliation effect that adds the unmounted ids to the shadow set
\* it finds
ReconcileEffectKeepsShadow(s, n, cc, t) ==
    IF ~allowMultiSelect \/ s.sel = {} THEN s
    ELSE LET items == {i \in s.sel : MountedIn(n, cc, t, i)}
         IN  [s EXCEPT !.shadow = s.shadow \cup SetOfIds(s.sel \ items),
                       !.targets = items,
                       !.act = getActiveItem(items, n)]

\* useEffect on [grid.columnCount, explorer.items]
ReconcileEffect(s, n, cc, t) ==
    IF ~allowMultiSelect \/ s.sel = {} THEN s
    ELSE LET items == {i \in s.sel : MountedIn(n, cc, t, i)}
         IN  [s EXCEPT !.shadow = SetOfIds(s.sel \ items),
                       !.targets = items,
                       !.act = getActiveItem(items, n)]

\* The effect on [explorer.selectedItems] without its reset of the anchor
EmptyEffectKeepsAnchor(s, n) ==
    IF {i \in s.sel : ExistsIn(n, i)} # {} THEN s
    ELSE [s EXCEPT !.shadow = {}]

\* useEffect on [explorer.selectedItems]
EmptyEffect(s, n) ==
    IF {i \in s.sel : ExistsIn(n, i)} # {} THEN s
    ELSE [s EXCEPT !.shadow = {}, !.act = Null]

\* useEffect on [explorer.items, explorer.selectedItems, quickPreviewStore.open]
QuickPreviewEffect(s, n, cc, t, qp) ==
    LET live == {i \in s.sel : ExistsIn(n, i)}
    IN  IF ~allowMultiSelect \/ ~qp \/ Cardinality(live) # 1 THEN s
        ELSE LET item == CHOOSE i \in live : TRUE
             IN  IF MountedIn(n, cc, t, item)
                 THEN [s EXCEPT !.targets = {item}, !.act = item]
                 ELSE [s EXCEPT !.shadow = SetOfString(item), !.act = item]

\* The effects of a render in which only the selection changed
SelectionEffects(s) ==
    QuickPreviewEffect(EmptyEffect(s, count), count, columnCount, s.top,
                       quickPreviewOpen)

\* selecto.current?.setSelectedTargets(t): Selecto exists only with multi-select
setSelectedTargets(s, t) ==
    IF allowMultiSelect THEN [s EXCEPT !.targets = t] ELSE s

\* The state a handler ends in becomes the next state
Commit(s) ==
    \E v \in {s} :
        /\ selectedItemHashes' = v.sel
        /\ activeItem' = v.act
        /\ selectoUnselected' = v.shadow
        /\ selectoSelected' = v.targets
        /\ selectoFirstColumn' = v.firstCol
        /\ selectoLastColumn' = v.lastCol
        /\ top' = v.top

\* The history variable: the operation of the last step, whether shift was
\* held, the active item a shortcut started from, and the item a mouse down
\* fell on
Op(name) == [op |-> name, shift |-> FALSE, from |-> Null, item |-> Null]

KeyOp(name, shift) ==
    [op |-> name, shift |-> shift, from |-> activeItem, item |-> Null]

MouseOp(i, shift) ==
    [op |-> "MouseDown", shift |-> shift, from |-> Null, item |-> i]

-----------------------------------------------------------------------------
(* Keyboard Navigation Controller *)

\* scrollBy in keyboardHandler: bring the row of the new item into view
ScrollIntoView(s, i) ==
    LET r == RowOf(i)
    IN  IF r < s.top THEN [s EXCEPT !.top = r]
        ELSE IF r > s.top + ViewRows - 1 THEN [s EXCEPT !.top = r - ViewRows + 1]
        ELSE s

\* keyboardHandler that extends with shift whether or not quick-preview is
\* open
keyboardHandlerIgnoresPreview(s, shift, newIndex) ==
    IF ~selectable THEN s
    ELSE IF ~ItemExists(newIndex) THEN s
    ELSE IF ~allowMultiSelect
    THEN ScrollIntoView(
            SelectionEffects([s EXCEPT !.sel = resetSelectedItems({newIndex}),
                                       !.act = newIndex]), newIndex)
    ELSE IF ~Mounted(newIndex) THEN s
    ELSE IF shift
    THEN IF newIndex \notin selectedItems
         THEN SelectionEffects(
                [s EXCEPT !.sel = addSelectedItem(s.sel, newIndex),
                          !.targets = s.targets \cup {newIndex},
                          !.act = newIndex])
         ELSE [s EXCEPT !.act = newIndex]
    ELSE SelectionEffects(
            [s EXCEPT !.sel = resetSelectedItems({newIndex}),
                      !.targets = {newIndex},
                      !.shadow = {},
                      !.act = newIndex])

\* keyboardHandler that leaves the anchor where it was
keyboardHandlerKeepsAnchor(s, shift, newIndex) ==
    IF ~selectable THEN s
    ELSE IF ~ItemExists(newIndex) THEN s
    ELSE IF ~allowMultiSelect
    THEN ScrollIntoView(
            SelectionEffects([s EXCEPT !.sel = resetSelectedItems({newIndex})]),
            newIndex)
    ELSE IF ~Mounted(newIndex) THEN s
    ELSE IF shift /\ ~quickPreviewOpen
    THEN IF newIndex \notin selectedItems
         THEN SelectionEffects(
                [s EXCEPT !.sel = addSelectedItem(s.sel, newIndex),
                          !.targets = s.targets \cup {newIndex}])
         ELSE s
    ELSE SelectionEffects(
            [s EXCEPT !.sel = resetSelectedItems({newIndex}),
                      !.targets = {newIndex},
                      !.shadow = {}])

\* keyboardHandler without the test that grid.getItem(newIndex) is an item
keyboardHandlerNoItemTest(s, shift, newIndex) ==
    IF ~selectable THEN s
    ELSE IF ~allowMultiSelect
    THEN ScrollIntoView(
            SelectionEffects([s EXCEPT !.sel = resetSelectedItems({newIndex}),
                                       !.act = newIndex]), newIndex)
    ELSE IF ~Mounted(newIndex) THEN s
    ELSE IF shift /\ ~quickPreviewOpen
    THEN IF newIndex \notin selectedItems
         THEN SelectionEffects(
                [s EXCEPT !.sel = addSelectedItem(s.sel, newIndex),
                          !.targets = s.targets \cup {newIndex},
                          !.act = newIndex])
         ELSE [s EXCEPT !.act = newIndex]
    ELSE SelectionEffects(
            [s EXCEPT !.sel = resetSelectedItems({newIndex}),
                      !.targets = {newIndex},
                      !.shadow = {},
                      !.act = newIndex])

\* keyboardHandler(e, newIndex); the result is the state after the handler and
\* after the effects of the render it causes
keyboardHandler(s, shift, newIndex) ==
    IF ~selectable THEN s
    ELSE IF ~ItemExists(newIndex) THEN s
    ELSE IF ~allowMultiSelect
    THEN ScrollIntoView(
            SelectionEffects([s EXCEPT !.sel = resetSelectedItems({newIndex}),
                                       !.act = newIndex]), newIndex)
    ELSE IF ~Mounted(newIndex) THEN s
    ELSE IF shift /\ ~quickPreviewOpen
    THEN IF newIndex \notin selectedItems
         THEN SelectionEffects(
                [s EXCEPT !.sel = addSelectedItem(s.sel, newIndex),
                          !.targets = s.targets \cup {newIndex},
                          !.act = newIndex])
         ELSE [s EXCEPT !.act = newIndex]
    ELSE SelectionEffects(
            [s EXCEPT !.sel = resetSelectedItems({newIndex}),
                      !.targets = {newIndex},
                      !.shadow = {},
                      !.act = newIndex])

KeyDelta(key) ==
    CASE key = "ArrowUp" -> 0 - columnCount
      [] key = "ArrowDown" -> columnCount
      [] key = "ArrowLeft" -> 0 - 1
      [] key = "ArrowRight" -> 1

\* getGridItemHandler that moves by one item for every key
getGridItemHandlerByOne(key) ==
    IF activeItem = Null THEN Undef
    ELSE IF ~ItemExists(activeItem) THEN Undef
    ELSE activeItem + (IF key \in {"ArrowUp", "ArrowLeft"} THEN 0 - 1 ELSE 1)

\* getGridItemHandler that stops at the left edge of a row
getGridItemHandlerNoWrap(key) ==
    IF activeItem = Null THEN Undef
    ELSE IF ~ItemExists(activeItem) THEN Undef
    ELSE IF key = "ArrowLeft" /\ ColumnOf(activeItem) = 0 THEN Undef
    ELSE activeItem + KeyDelta(key)

\* getGridItemHandler(key): the new index, or Undef when the handler returns
\* undefined (no active item, or an active item that is not in the list).
\* Undef is never the index of an item.
getGridItemHandler(key) ==
    IF activeItem = Null THEN Undef
    ELSE IF ~ItemExists(activeItem) THEN Undef
    ELSE activeItem + KeyDelta(key)

HasNewIndex(key) == activeItem # Null /\ ItemExists(activeItem)

Keys == {"ArrowUp", "ArrowDown", "ArrowLeft", "ArrowRight"}

FrameKeys ==
    UNCHANGED <<count, columnCount, allowMultiSelect, selectable, dialogOpen,
                quickPreviewOpen, isDragSelecting, dragFromThumbnail, drag,
                openVars, shellVars>>

\* useShortcut('explorerUp' | 'explorerLeft' | 'explorerRight') and
\* 'explorerDown' with a selection
ExplorerArrow(key, shift) ==
    /\ key = "ArrowDown" => selectedItems # {} \/ ~selectable \/ dialogOpen
    /\ LET newIndex == getGridItemHandler(key)
       IN  /\ last' = KeyOp(key, shift)
           /\ IF ~selectable \/ dialogOpen \/ ~HasNewIndex(key)
              THEN Commit(Cur)
              ELSE Commit(keyboardHandler(Cur, shift, newIndex))
    /\ FrameKeys

\* useShortcut('explorerDown') with an empty selection
ExplorerDownEmpty ==
    /\ selectable /\ ~dialogOpen /\ selectedItems = {}
    /\ last' = KeyOp("DownEmpty", FALSE)
    /\ IF ~ItemExists(0) \/ ~Mounted(0) THEN Commit(Cur)
       ELSE Commit(SelectionEffects(
                [setSelectedTargets([Cur EXCEPT !.sel = resetSelectedItems({0})],
                                    {0})
                 EXCEPT !.act = 0]))
    /\ FrameKeys

\* useShortcut('explorerEscape')
ExplorerEscape ==
    /\ last' = KeyOp("Escape", FALSE)
    /\ IF ~selectable \/ selectedItems = {} THEN Commit(Cur)
       ELSE Commit(SelectionEffects(
                setSelectedTargets([Cur EXCEPT !.sel = resetSelectedItems({})],
                                   {})))
    /\ FrameKeys

-----------------------------------------------------------------------------
(* Pointer positions.  x is a lattice: GapX(c) is a point of the gap left   *)
(* of column c, ColX(c) a point of column c itself (an item's left and      *)
(* right edge both lie at ColX).  y is in pixels of the grid's content.     *)

GapX(c) == 2 * c + 1

ColX(c) == 2 * c + 2

PointY(r, d) == RowTop(r) + d

RowOfY(y) == (y - PaddingY) \div (ItemHeight + GapY)

OnItemX(x) == x % 2 = 0

OnItemY(y) == (y - PaddingY) % (ItemHeight + GapY) < ItemHeight

\* The item under a point, when the point is on a mounted item
ItemAt(x, y) == RowOfY(y) * columnCount + ((x - 2) \div 2)

\* e.rect of the gesture d
RectLeft(d) == IF d.sx < d.cx THEN d.sx ELSE d.cx

RectRight(d) == IF d.sx < d.cx THEN d.cx ELSE d.sx

RectTop(d) == IF d.sy < d.cy THEN d.sy ELSE d.cy

RectBottom(d) == IF d.sy < d.cy THEN d.cy ELSE d.sy

\* Selecto's hit test (hitRate 0): the mounted targets the rectangle touches
Passed(d, n, cc, t) ==
    {i \in 0 .. (n - 1) :
        /\ MountedIn(n, cc, t, i)
        /\ ColX(i % cc) >= RectLeft(d) /\ ColX(i % cc) <= RectRight(d)
        /\ RowTop(i \div cc) <= RectBottom(d)
        /\ RowBottom(i \div cc) >= RectTop(d)}

\* Selecto's selected targets for a hit set: with shift (toggleContinueSelect)
\* the hit targets toggle in the selection the gesture started from
SelectoSelect(d, passed) ==
    IF d.shift THEN (d.startSel \ passed) \cup (passed \ d.startSel) ELSE passed

-----------------------------------------------------------------------------
(* Marquee / Drag-Select Controller: Selecto's onSelect *)

RECURSIVE AddEach(_, _)
AddEach(S, A) ==
    IF A = {} THEN S
    ELSE LET i == CHOOSE x \in A : TRUE
         IN  AddEach(addSelectedItem(S, i), A \ {i})

SetMax(S) == CHOOSE m \in S : \A x \in S : m >= x

\* Math.ceil(num / den) and Math.round(num / den) for den > 0
Ceil(num, den) == 0 - ((0 - num) \div den)

Round(num, den) == (2 * num + den) \div (2 * den)

\* itemsInDragCount for a drag of dragHeight pixels
itemsInDragCount(dragHeight) ==
    LET num == dragHeight - GapY
        den == ItemHeight + GapY
    IN  IF num > den THEN Ceil(num, den) ELSE Round(num, den)

Abs(x) == IF x < 0 THEN 0 - x ELSE x

\* onSelect for a mousemove without the test document.contains(el): every
\* removed target leaves the selection
OnSelectMoveRemovesGone(s, added, removed, e0, d) ==
    LET dirRight == ~(d.cx = RectLeft(d))
        dirDown == d.cy = RectBottom(d)
        items == {i \in added \cup removed : ItemExists(i)}
        columns == {ColumnOf(i) : i \in items}
        inDocument(i) == MountedIn(count, columnCount, s.top, i)
        removedLive == {i \in removed : ItemExists(i) /\ inDocument(i)}
        removedGone == {i \in removed : ItemExists(i) /\ ~inDocument(i)}
        sel1 == AddEach(s.sel, {i \in added : ItemExists(i)})
                    \ (removedLive \cup removedGone)
        \* elements[0].getBoundingClientRect(): all zero for a detached element
        rectLeft == IF inDocument(e0) THEN ColX(ColumnOf(e0)) ELSE 0
        inDragArea == IF dirRight THEN d.cx >= rectLeft ELSE d.cx <= rectLeft
        column == CHOOSE c \in columns : TRUE
        single == Cardinality(columns) = 1
        enter == single /\ (column # s.lastCol \/ ~inDragArea)
        firstItem == IF dirDown THEN SetMin(items) ELSE SetMax(items)
        itemTop == RowTop(RowOf(firstItem))
        itemBottom == RowBottom(RowOf(firstItem))
        beyond == IF dirDown THEN d.sy < itemTop ELSE d.sy > itemBottom
        dragHeight == Abs(d.sy - (IF dirDown THEN itemTop ELSE itemBottom))
        n == IF enter /\ beyond THEN itemsInDragCount(dragHeight) ELSE 0
        implied == {j \in {firstItem + (IF dirDown THEN 0 - k ELSE k) * columnCount
                             : k \in 1 .. n} : ItemExists(j)}
        impliedAdd == IF d.shift THEN implied \ selectedItems
                      ELSE IF inDragArea THEN implied ELSE {}
        impliedRemove == implied \ impliedAdd
        sel2 == AddEach(sel1, impliedAdd) \ impliedRemove
        unselected == removedGone \cup (IF inDragArea THEN impliedAdd ELSE {})
        minCol == SetMin(columns)
        maxCol == SetMax(columns)
        cols == IF Cardinality(columns) > 1
                THEN [f |-> IF dirRight THEN minCol ELSE maxCol,
                      l |-> IF dirRight THEN maxCol ELSE minCol]
                ELSE IF ~enter THEN [f |-> s.firstCol, l |-> s.lastCol]
                ELSE IF ~inDragArea /\ column = s.firstCol
                THEN [f |-> Undef, l |-> Undef]
                ELSE [f |-> IF s.firstCol = Undef THEN column ELSE s.firstCol,
                      l |-> column]
    IN  [state |-> [s EXCEPT !.sel = sel2,
                             !.shadow = s.shadow \cup SetOfIds(unselected),
                             !.firstCol = cols.f,
                             !.lastCol = cols.l],
         mutated |-> \/ {i \in added : ItemExists(i)} # {}
                     \/ removedLive # {}
                     \/ implied # {}]

\* onSelect for a mousemove that records the columns of a tick from left to
\* right whatever the direction of the drag
OnSelectMoveLeftToRight(s, added, removed, e0, d) ==
    LET dirRight == ~(d.cx = RectLeft(d))
        dirDown == d.cy = RectBottom(d)
        items == {i \in added \cup removed : ItemExists(i)}
        columns == {ColumnOf(i) : i \in items}
        inDocument(i) == MountedIn(count, columnCount, s.top, i)
        removedLive == {i \in removed : ItemExists(i) /\ inDocument(i)}
        removedGone == {i \in removed : ItemExists(i) /\ ~inDocument(i)}
        sel1 == AddEach(s.sel, {i \in added : ItemExists(i)}) \ removedLive
        \* elements[0].getBoundingClientRect(): all zero for a detached element
        rectLeft == IF inDocument(e0) THEN ColX(ColumnOf(e0)) ELSE 0
        inDragArea == IF dirRight THEN d.cx >= rectLeft ELSE d.cx <= rectLeft
        column == CHOOSE c \in columns : TRUE
        single == Cardinality(columns) = 1
        enter == single /\ (column # s.lastCol \/ ~inDragArea)
        firstItem == IF dirDown THEN SetMin(items) ELSE SetMax(items)
        itemTop == RowTop(RowOf(firstItem))
        itemBottom == RowBottom(RowOf(firstItem))
        beyond == IF dirDown THEN d.sy < itemTop ELSE d.sy > itemBottom
        dragHeight == Abs(d.sy - (IF dirDown THEN itemTop ELSE itemBottom))
        n == IF enter /\ beyond THEN itemsInDragCount(dragHeight) ELSE 0
        implied == {j \in {firstItem + (IF dirDown THEN 0 - k ELSE k) * columnCount
                             : k \in 1 .. n} : ItemExists(j)}
        impliedAdd == IF d.shift THEN implied \ selectedItems
                      ELSE IF inDragArea THEN implied ELSE {}
        impliedRemove == implied \ impliedAdd
        sel2 == AddEach(sel1, impliedAdd) \ impliedRemove
        unselected == removedGone \cup (IF inDragArea THEN impliedAdd ELSE {})
        minCol == SetMin(columns)
        maxCol == SetMax(columns)
        cols == IF Cardinality(columns) > 1
                THEN [f |-> minCol, l |-> maxCol]
                ELSE IF ~enter THEN [f |-> s.firstCol, l |-> s.lastCol]
                ELSE IF ~inDragArea /\ column = s.firstCol
                THEN [f |-> Undef, l |-> Undef]
                ELSE [f |-> IF s.firstCol = Undef THEN column ELSE s.firstCol,
                      l |-> column]
    IN  [state |-> [s EXCEPT !.sel = sel2,
                             !.shadow = s.shadow \cup SetOfIds(unselected),
                             !.firstCol = cols.f,
                             !.lastCol = cols.l],
         mutated |-> \/ {i \in added : ItemExists(i)} # {}
                     \/ removedLive # {}
                     \/ implied # {}]

\* onSelect, inputEvent.type === 'mousemove'.  e0 is elements[0], the first
\* of [...e.added, ...e.removed]; d is the gesture with the pointer where the
\* event has it.  The result carries whether a selection mutator was called.
OnSelectMove(s, added, removed, e0, d) ==
    LET dirRight == ~(d.cx = RectLeft(d))
        dirDown == d.cy = RectBottom(d)
        items == {i \in added \cup removed : ItemExists(i)}
        columns == {ColumnOf(i) : i \in items}
        inDocument(i) == MountedIn(count, columnCount, s.top, i)
        removedLive == {i \in removed : ItemExists(i) /\ inDocument(i)}
        removedGone == {i \in removed : ItemExists(i) /\ ~inDocument(i)}
        sel1 == AddEach(s.sel, {i \in added : ItemExists(i)}) \ removedLive
        \* elements[0].getBoundingClientRect(): all zero for a detached element
        rectLeft == IF inDocument(e0) THEN ColX(ColumnOf(e0)) ELSE 0
        inDragArea == IF dirRight THEN d.cx >= rectLeft ELSE d.cx <= rectLeft
        column == CHOOSE c \in columns : TRUE
        single == Cardinality(columns) = 1
        enter == single /\ (column # s.lastCol \/ ~inDragArea)
        firstItem == IF dirDown THEN SetMin(items) ELSE SetMax(items)
        itemTop == RowTop(RowOf(firstItem))
        itemBottom == RowBottom(RowOf(firstItem))
        beyond == IF dirDown THEN d.sy < itemTop ELSE d.sy > itemBottom
        dragHeight == Abs(d.sy - (IF dirDown THEN itemTop ELSE itemBottom))
        n == IF enter /\ beyond THEN itemsInDragCount(dragHeight) ELSE 0
        implied == {j \in {firstItem + (IF dirDown THEN 0 - k ELSE k) * columnCount
                             : k \in 1 .. n} : ItemExists(j)}
        impliedAdd == IF d.shift THEN implied \ selectedItems
                      ELSE IF inDragArea THEN implied ELSE {}
        impliedRemove == implied \ impliedAdd
        sel2 == AddEach(sel1, impliedAdd) \ impliedRemove
        unselected == removedGone \cup (IF inDragArea THEN impliedAdd ELSE {})
        minCol == SetMin(columns)
        maxCol == SetMax(columns)
        cols == IF Cardinality(columns) > 1
                THEN [f |-> IF dirRight THEN minCol ELSE maxCol,
                      l |-> IF dirRight THEN maxCol ELSE minCol]
                ELSE IF ~enter THEN [f |-> s.firstCol, l |-> s.lastCol]
                ELSE IF ~inDragArea /\ column = s.firstCol
                THEN [f |-> Undef, l |-> Undef]
                ELSE [f |-> IF s.firstCol = Undef THEN column ELSE s.firstCol,
                      l |-> column]
    IN  [state |-> [s EXCEPT !.sel = sel2,
                             !.shadow = s.shadow \cup SetOfIds(unselected),
                             !.firstCol = cols.f,
                             !.lastCol = cols.l],
         mutated |-> \/ {i \in added : ItemExists(i)} # {}
                     \/ removedLive # {}
                     \/ implied # {}]

\* One tick of Selecto during a gesture: hit test, diff against the previous
\* selected targets, and onSelect when something was added or removed
Tick(s, d, e0, added, removed) ==
    LET r == CHOOSE v \in {OnSelectMove(s, added, removed, e0, d)} : TRUE
    IN  IF r.mutated THEN SelectionEffects(r.state) ELSE r.state

-----------------------------------------------------------------------------
(* Pointer gestures *)

YOffsets == {1, 3, 5}

GridOffsets == {3, 5}

ItemOffsets == {d \in YOffsets : d < ItemHeight}

Gesture(x, y, shift, before) ==
    [on |-> TRUE, sx |-> x, sy |-> y, cx |-> x, cy |-> y, shift |-> shift,
     startSel |-> before]

\* GridItem onMouseDown that adds the item where the code resets the
\* selection to it
GridItemMouseDownAdds(s, i) ==
    IF ~selectable THEN s
    ELSE IF ~ItemExists(i) THEN s
    ELSE IF ~allowMultiSelect
    THEN [s EXCEPT !.sel = s.sel \cup {i}, !.act = i]
    ELSE [s EXCEPT !.firstCol = ColumnOf(i), !.lastCol = ColumnOf(i), !.act = i]

\* GridItem onMouseDown that does not move the anchor when multi-select is
\* disabled
GridItemMouseDownKeepsAnchor(s, i) ==
    IF ~selectable THEN s
    ELSE IF ~ItemExists(i) THEN s
    ELSE IF ~allowMultiSelect
    THEN [s EXCEPT !.sel = resetSelectedItems({i})]
    ELSE [s EXCEPT !.firstCol = ColumnOf(i), !.lastCol = ColumnOf(i), !.act = i]

\* GridItem onMouseDown (primary button)
GridItemMouseDown(s, i) ==
    IF ~selectable THEN s
    ELSE IF ~ItemExists(i) THEN s
    ELSE IF ~allowMultiSelect
    THEN [s EXCEPT !.sel = resetSelectedItems({i}), !.act = i]
    ELSE [s EXCEPT !.firstCol = ColumnOf(i), !.lastCol = ColumnOf(i), !.act = i]

\* onSelect for a mouse down that leaves Selecto's targets at the clicked
\* element when the item is already selected
OnSelectDownKeepsClicked(s, i, shift) ==
    LET before == s.targets
    IN  IF ~ItemExists(i) THEN s
        ELSE IF ~shift
        THEN IF i \in selectedItems
             THEN [s EXCEPT !.targets = {i}]
             ELSE [s EXCEPT !.targets = {i}, !.shadow = {},
                            !.sel = resetSelectedItems({i})]
        ELSE IF i \notin before
        THEN [s EXCEPT !.targets = before \cup {i},
                       !.sel = addSelectedItem(s.sel, i)]
        ELSE [s EXCEPT !.targets = before \ {i},
                       !.sel = removeSelectedItem(s.sel, i)]

\* onSelect, inputEvent.type === 'mousedown', on the element of item i.
\* Selecto has already made its selected targets {i} (or toggled i with shift).
OnSelectDown(s, i, shift) ==
    LET before == s.targets
    IN  IF ~ItemExists(i) THEN s
        ELSE IF ~shift
        THEN IF i \in selectedItems
             THEN [s EXCEPT !.targets = before]
             ELSE [s EXCEPT !.targets = {i}, !.shadow = {},
                            !.sel = resetSelectedItems({i})]
        ELSE IF i \notin before
        THEN [s EXCEPT !.targets = before \cup {i},
                       !.sel = addSelectedItem(s.sel, i)]
        ELSE [s EXCEPT !.targets = before \ {i},
                       !.sel = removeSelectedItem(s.sel, i)]

FrameConfig ==
    UNCHANGED <<count, columnCount, allowMultiSelect, selectable, dialogOpen,
                quickPreviewOpen, openVars, shellVars>>

\* Mouse down (primary button) on the mounted item i, dy pixels below its top
ItemMouseDown(i, dy, shift, onImage) ==
    /\ ~drag.on /\ Mounted(i) /\ selectable
    /\ last' = MouseOp(i, shift)
    /\ IF allowMultiSelect
       THEN /\ Commit(SelectionEffects(
                    OnSelectDown(GridItemMouseDown(Cur, i), i, shift)))
            /\ isDragSelecting' = TRUE
            /\ dragFromThumbnail' = (dragFromThumbnail \/ onImage)
            /\ drag' = Gesture(ColX(ColumnOf(i)), PointY(RowOf(i), dy), shift,
                               selectoSelected)
       ELSE /\ Commit(SelectionEffects(GridItemMouseDown(Cur, i)))
            /\ UNCHANGED <<isDragSelecting, dragFromThumbnail, drag>>
    /\ FrameConfig

\* Whether a point of the mounted rows lies on no item
OffItems(x, y) == ~OnItemX(x) \/ ~OnItemY(y) \/ ~ItemExists(ItemAt(x, y))

\* Mouse down on a point of the view that is on no item (Selecto only)
EmptyMouseDown(x, y, shift) ==
    /\ ~drag.on /\ allowMultiSelect
    /\ RowOfY(y) \in MountedRows /\ OffItems(x, y)
    /\ last' = Op("Other")
    /\ Commit(IF shift THEN Cur ELSE [Cur EXCEPT !.targets = {}])
    /\ isDragSelecting' = TRUE
    /\ drag' = Gesture(x, y, shift, selectoSelected)
    /\ UNCHANGED dragFromThumbnail
    /\ FrameConfig

\* Selecto checks the gesture d against the targets mounted in the window
\* at row t: it diffs the hit targets against its selected targets and calls
\* onSelect when a target was added or removed
Check(d, t) ==
    \E now \in {SelectoSelect(d, Passed(d, count, columnCount, t))} :
    \E added \in {now \ selectoSelected}, removed \in {selectoSelected \ now} :
    \E s \in {[Cur EXCEPT !.targets = now, !.top = t]} :
        IF added = {} /\ removed = {} THEN Commit(s)
        ELSE \E e0 \in (IF added # {} THEN added ELSE removed) :
                Commit(Tick(s, d, e0, added, removed))

\* Pointer move to (x, y) during a gesture
DragMove(x, y) ==
    /\ drag.on /\ RowOfY(y) \in MountedRows
    /\ <<x, y>> # <<drag.cx, drag.cy>>
    /\ drag' = [drag EXCEPT !.cx = x, !.cy = y]
    /\ Check([drag EXCEPT !.cx = x, !.cy = y], top)
    /\ last' = Op("Other")
    /\ UNCHANGED <<isDragSelecting, dragFromThumbnail>>
    /\ FrameConfig

\* handleDragEnd that leaves the column refs as the gesture set them
handleDragEndKeepsColumns(s) ==
    [s EXCEPT !.act = getActiveItem(s.targets, count)]

\* handleDragEnd
handleDragEnd(s) ==
    [s EXCEPT !.firstCol = Undef, !.lastCol = Undef,
              !.act = getActiveItem(s.targets, count)]

\* Selecto onDragEnd
DragEnd ==
    /\ drag.on
    /\ Commit(handleDragEnd(Cur))
    /\ isDragSelecting' = FALSE
    /\ dragFromThumbnail' = FALSE
    /\ drag' = NoDrag
    /\ last' = Op("DragEnd")
    /\ FrameConfig

\* Selecto onDrag when explorerStore.drag is set (an item is being dragged):
\* the gesture is stopped and handleDragEnd runs
DragStop ==
    /\ drag.on
    /\ Commit(handleDragEnd(Cur))
    /\ isDragSelecting' = FALSE
    /\ dragFromThumbnail' = FALSE
    /\ drag' = NoDrag
    /\ last' = Op("DragStop")
    /\ FrameConfig

MaxTop(n, cc) ==
    LET rows == (n + cc - 1) \div cc
    IN  IF rows > ViewRows THEN rows - ViewRows ELSE 0

\* The scroll container scrolls by one row between gestures
Scroll(delta) ==
    /\ ~drag.on
    /\ top + delta >= 0 /\ top + delta <= MaxTop(count, columnCount)
    /\ top' = top + delta
    /\ last' = Op("Other")
    /\ UNCHANGED <<selectedItemHashes, activeItem, selectoUnselected,
                   selectoSelected, selectoFirstColumn, selectoLastColumn,
                   isDragSelecting, dragFromThumbnail, drag>>
    /\ FrameConfig

\* The scroll container scrolls by one row during a gesture (Selecto's
\* onScroll, handleScroll): the pointer keeps its place in the window, so it
\* moves over the content, and Selecto checks the gesture again
DragScroll(delta) ==
    /\ drag.on
    /\ top + delta >= 0 /\ top + delta <= MaxTop(count, columnCount)
    /\ drag' = [drag EXCEPT !.cy = @ + delta * (ItemHeight + GapY)]
    /\ Check([drag EXCEPT !.cy = @ + delta * (ItemHeight + GapY)], top + delta)
    /\ last' = Op("Other")
    /\ UNCHANGED <<isDragSelecting, dragFromThumbnail>>
    /\ FrameConfig

-----------------------------------------------------------------------------
(* Changes of the item list, of the layout and of the modes *)

\* The effects of a render in which explorer.items (and so
\* explorer.selectedItems) changed
ItemsEffects(s, n, cc, t) ==
    QuickPreviewEffect(EmptyEffect(ReconcileEffect(s, n, cc, t), n), n, cc, t,
                       quickPreviewOpen)

Clamp(t, n, cc) == IF t > MaxTop(n, cc) THEN MaxTop(n, cc) ELSE t

\* explorer.items gets or loses its last item (onLoadMore, a refetch)
ItemsChange(n) ==
    /\ n \in {count - 1, count + 1} /\ n >= MinItems /\ n <= MaxItems
    /\ count' = n
    /\ Commit(ItemsEffects([Cur EXCEPT !.top = Clamp(top, n, columnCount)], n,
                           columnCount, Clamp(top, n, columnCount)))
    /\ last' = Op("Other")
    /\ UNCHANGED <<columnCount, allowMultiSelect, selectable, dialogOpen,
                   quickPreviewOpen, isDragSelecting, dragFromThumbnail, drag,
                   openVars, shellVars>>

ToggleSelectable ==
    /\ selectable' = ~selectable
    /\ last' = Op("Other")
    /\ UNCHANGED <<count, columnCount, top, allowMultiSelect, dialogOpen,
                   quickPreviewOpen, selectedItemHashes, activeItem,
                   selectoUnselected, selectoSelected, selectoFirstColumn,
                   selectoLastColumn, isDragSelecting, dragFromThumbnail, drag,
                   openVars, shellVars>>

ToggleDialog ==
    /\ dialogOpen' = ~dialogOpen
    /\ last' = Op("Other")
    /\ UNCHANGED <<count, columnCount, top, allowMultiSelect, selectable,
                   quickPreviewOpen, selectedItemHashes, activeItem,
                   selectoUnselected, selectoSelected, selectoFirstColumn,
                   selectoLastColumn, isDragSelecting, dragFromThumbnail, drag,
                   openVars, shellVars>>

\* quickPreviewStore.open changes
ToggleQuickPreview ==
    /\ quickPreviewOpen' = ~quickPreviewOpen
    /\ Commit(QuickPreviewEffect(Cur, count, columnCount, top, ~quickPreviewOpen))
    /\ last' = Op("Other")
    /\ UNCHANGED <<count, columnCount, allowMultiSelect, selectable, dialogOpen,
                   isDragSelecting, dragFromThumbnail, drag, openVars, shellVars>>

-----------------------------------------------------------------------------
(* The double-click dispatcher: useViewItemDoubleClick.  An explorer item is *)
(* a number; its type and, for a path, whether it is a directory follow     *)
(* from the set it is in.  A file path is identified with its item (an      *)
(* Object has one file path here).                                          *)

MaxSelected == 3

\* doubleClick(item?) without an item
NoItem == 0

Files == {1, 2}
Objects == {3}
Directories == {4, 5}
LocationItems == {6}
NonIndexedFiles == {7}
NonIndexedDirectories == {8}
LabelItems == {9}
SpacedropPeers == {10}

ExplorerItems ==
    Files \cup Objects \cup Directories \cup LocationItems \cup NonIndexedFiles
        \cup NonIndexedDirectories \cup LabelItems \cup SpacedropPeers

\* selectedItem.type
type(i) ==
    IF i \in Files \cup Directories THEN "Path"
    ELSE IF i \in Objects THEN "Object"
    ELSE IF i \in LocationItems THEN "Location"
    ELSE IF i \in NonIndexedFiles \cup NonIndexedDirectories THEN "NonIndexedPath"
    ELSE IF i \in LabelItems THEN "Label"
    ELSE "SpacedropPeer"

\* filePath.is_dir, non_indexed.is_dir
is_dir(i) == i \in Directories \cup NonIndexedDirectories

\* Array.prototype.splice(start, 0, x): a negative start counts from the end
splice(arr, start, x) ==
    LET len == Len(arr)
        at == IF start < 0 THEN (IF len + start < 0 THEN 0 ELSE len + start)
              ELSE IF start > len THEN len ELSE start
    IN  SubSeq(arr, 1, at) \o <<x>> \o SubSeq(arr, at + 1, len)

EmptyItems ==
    [dirs |-> <<>>, paths |-> <<>>, locations |-> <<>>, non_indexed |-> <<>>]

sameAsClicked(item, selectedItem) ==
    item # NoItem /\ uniqueId(item) = uniqueId(selectedItem)

\* The reducer without its test of is_dir: every file path is put in paths
reducerIgnoresIsDir(acc, selectedItem, i, item) ==
    LET same == sameAsClicked(item, selectedItem)
        start == IF same THEN 0 ELSE 0 - 1
        items == acc.items
        next ==
            IF type(selectedItem) = "Location"
            THEN [items EXCEPT !.locations = splice(@, start, selectedItem)]
            ELSE IF type(selectedItem) = "NonIndexedPath"
            THEN [items EXCEPT !.non_indexed = splice(@, start, selectedItem)]
            ELSE IF type(selectedItem) \in {"SpacedropPeer", "Label"}
            THEN items
            ELSE [items EXCEPT !.paths = splice(@, start, selectedItem)]
    IN  [items |-> next, itemIndex |-> IF same THEN i ELSE acc.itemIndex]

\* One call of the reducer: acc.items are the buckets, acc.itemIndex the
\* index of the clicked item; i is the index of selectedItem
reducer(acc, selectedItem, i, item) ==
    LET same == sameAsClicked(item, selectedItem)
        start == IF same THEN 0 ELSE 0 - 1
        items == acc.items
        next ==
            IF type(selectedItem) = "Location"
            THEN [items EXCEPT !.locations = splice(@, start, selectedItem)]
            ELSE IF type(selectedItem) = "NonIndexedPath"
            THEN [items EXCEPT !.non_indexed = splice(@, start, selectedItem)]
            ELSE IF type(selectedItem) \in {"SpacedropPeer", "Label"}
            THEN items
            ELSE IF is_dir(selectedItem)
            THEN [items EXCEPT !.dirs = splice(@, start, selectedItem)]
            ELSE [items EXCEPT !.paths = splice(@, start, selectedItem)]
    IN  [items |-> next, itemIndex |-> IF same THEN i ELSE acc.itemIndex]

\* selectedItems.reduce(reducer, initial), from the element at index i on
RECURSIVE reduce(_, _, _, _)
reduce(selected, item, i, acc) ==
    IF i >= Len(selected) THEN acc
    ELSE reduce(selected, item, i + 1, reducer(acc, selected[i + 1], i, item))

Act(name, args) == [action |-> name, args |-> args]

\* The guard of the quick-preview branches
canPreview(item) == type(item) # "Location" /\ ~(type(item) = "Path" /\ is_dir(item))

\* if (!item) return; if (item.type === 'Label') navigate to the search
labelStep(item) ==
    IF item # NoItem /\ type(item) = "Label"
    THEN <<Act("navigateSearch", <<item>>)>>
    ELSE <<>>

\* if (items.non_indexed.length > 0) ... and what follows it
nonIndexedStep(p, item, mode, plat, failed) ==
    LET non_indexed == p.items.non_indexed
    IN  IF Len(non_indexed) = 0 THEN labelStep(item)
        ELSE IF Len(non_indexed) = 1 /\ is_dir(non_indexed[1])
        THEN <<Act("navigatePath", <<non_indexed[1]>>)>>
        ELSE IF mode = "openFile" /\ plat.openEphemeralFiles
        THEN <<Act("openEphemeralFiles", non_indexed)>>
                \o (IF failed THEN <<Act("toast", <<>>)>> ELSE <<>>)
                \o labelStep(item)
        ELSE IF item # NoItem /\ mode = "quickPreview" /\ canPreview(item)
        THEN <<Act("quickPreview", <<p.itemIndex>>)>>
        ELSE labelStep(item)

\* if (items.locations.length > 0) ... and what follows it
locationsStep(p, item, mode, plat, failed) ==
    IF Len(p.items.locations) > 0
    THEN <<Act("navigateLocation", <<p.items.locations[1]>>)>>
    ELSE nonIndexedStep(p, item, mode, plat, failed)

\* if (items.dirs.length > 0) ... and what follows it
dirsStep(p, item, mode, plat, failed) ==
    IF Len(p.items.dirs) > 0
    THEN <<Act("setSearchParams", <<p.items.dirs[1]>>)>>
    ELSE locationsStep(p, item, mode, plat, failed)

\* The paths branch without its try/catch: a rejection of openFilePaths
\* leaves doubleClick as an exception
pathsStepNoCatch(p, item, mode, plat, failedPaths, failed) ==
    IF Len(p.items.paths) = 0 THEN dirsStep(p, item, mode, plat, failed)
    ELSE IF mode = "openFile" /\ plat.openFilePaths
    THEN IF failedPaths
         THEN <<Act("updateAccessTime", p.items.paths),
                Act("openFilePaths", p.items.paths), Act("throw", <<>>)>>
         ELSE <<Act("updateAccessTime", p.items.paths),
                Act("openFilePaths", p.items.paths)>>
                 \o dirsStep(p, item, mode, plat, failed)
    ELSE IF item # NoItem /\ mode = "quickPreview" /\ canPreview(item)
    THEN <<Act("quickPreview", <<p.itemIndex>>)>>
    ELSE dirsStep(p, item, mode, plat, failed)

\* if (items.paths.length > 0) ... and what follows it
pathsStep(p, item, mode, plat, failedPaths, failed) ==
    IF Len(p.items.paths) = 0 THEN dirsStep(p, item, mode, plat, failed)
    ELSE IF mode = "openFile" /\ plat.openFilePaths
    THEN <<Act("updateAccessTime", p.items.paths),
           Act("openFilePaths", p.items.paths)>>
            \o (IF failedPaths THEN <<Act("toast", <<>>)>> ELSE <<>>)
            \o dirsStep(p, item, mode, plat, failed)
    ELSE IF item # NoItem /\ mode = "quickPreview" /\ canPreview(item)
    THEN <<Act("quickPreview", <<p.itemIndex>>)>>
    ELSE dirsStep(p, item, mode, plat, failed)

NotCalled ==
    [called |-> FALSE, item |-> NoItem, items |-> EmptyItems, itemIndex |-> 0,
     actions |-> <<>>, rejected |-> {}]

\* The platform actions that were called and whose promise rejected
Rejected(actions, failedPaths, failed) ==
    {a \in {"openFilePaths", "openEphemeralFiles"} :
        /\ \E k \in DOMAIN actions : actions[k].action = a
        /\ IF a = "openFilePaths" THEN failedPaths ELSE failed}

\* doubleClick(item): the record of the call, with the actions it dispatches
\* in their order
doubleClick(selected, item, mode, plat, failedPaths, failed) ==
    IF selected = <<>>
    THEN [NotCalled EXCEPT !.called = TRUE, !.item = item]
    ELSE LET p == CHOOSE v \in {reduce(selected, item, 0,
                                        [items |-> EmptyItems, itemIndex |-> 0])} :
                        TRUE
             actions == CHOOSE v \in {pathsStep(p, item, mode, plat,
                                                failedPaths, failed)} : TRUE
         IN  [called |-> TRUE, item |-> item, items |-> p.items,
              itemIndex |-> p.itemIndex, actions |-> actions,
              rejected |-> Rejected(actions, failedPaths, failed)]

Range(seq) == {seq[k] : k \in DOMAIN seq}

\* No double click yet: the state of the dispatcher while the grid is at work
NothingOpened ==
    /\ explorerSelectedItems = <<>>
    /\ openOnDoubleClick = "openFile"
    /\ platform = [openFilePaths |-> TRUE, openEphemeralFiles |-> TRUE]
    /\ opened = NotCalled

\* explorer.selectedItems gets a new member, which a Set iterates last
SelectItem(i) ==
    /\ i \notin Range(explorerSelectedItems)
    /\ Len(explorerSelectedItems) < MaxSelected
    /\ explorerSelectedItems' = Append(explorerSelectedItems, i)
    /\ opened' = NotCalled
    /\ UNCHANGED <<openOnDoubleClick, platform, gridVars, shellVars>>

\* A double click on item (or an open without an item); the platform's open
\* actions may fail.  The record of a call stays until the selection changes:
\* every call on a selection is taken from the state before any call on it.
DoubleClick(item, failedPaths, failed) ==
    /\ ~opened.called
    /\ opened' = doubleClick(explorerSelectedItems, item, openOnDoubleClick,
                             platform, failedPaths, failed)
    /\ UNCHANGED <<explorerSelectedItems, openOnDoubleClick, platform, gridVars,
                   shellVars>>

-----------------------------------------------------------------------------
(* The window: the routes of createRoutes and the error page.  A route is  *)
(* '/', '/onboarding' or '/:libraryId' with a library uuid; a navigation    *)
(* runs the loader or the redirecting component of the route it is at until *)
(* none redirects.  A page of the set broken throws when it renders, which  *)
(* the root route's errorElement catches.                                   *)

MaxLibraries == 2

\* uuids: one more than a list can hold, so that some uuid names no library
LibraryIds == 1 .. (MaxLibraries + 1)

Index == [path |-> "/", libraryId |-> Null]

Onboarding == [path |-> "/onboarding", libraryId |-> Null]

Library(uuid) == [path |-> "/:libraryId", libraryId |-> uuid]

Routes == {Index, Onboarding} \cup {Library(uuid) : uuid \in LibraryIds}

\* The cached libraries: lists of uuids without repetition
LibraryLists ==
    {l \in UNION {[1 .. n -> LibraryIds] : n \in 0 .. MaxLibraries} :
        \A a, b \in DOMAIN l : a # b => l[a] # l[b]}

\* libraries.find((l) => l.uuid === uuid), Null when undefined
find(libs, uuid) ==
    IF \E k \in DOMAIN libs : libs[k] = uuid THEN uuid ELSE Null

\* libraries[0], Null when undefined
first(libs) == IF libs = <<>> THEN Null ELSE libs[1]

\* The loader of the index route that ignores the cached current library
indexLoaderIgnoresCache(libs, cacheId) ==
    IF first(libs) = Null THEN Onboarding ELSE Library(first(libs))

\* The loader of the index route: the route it redirects to
indexLoader(libs, cacheId) ==
    LET currentLibrary == find(libs, cacheId)
        libraryId == IF currentLibrary # Null THEN currentLibrary
                     ELSE first(libs)
    IN  IF libraryId = Null THEN Onboarding ELSE Library(libraryId)

\* A loader returns null: no redirect
NoRedirect == [path |-> "", libraryId |-> Null]

\* The loader of ':libraryId': the route it redirects to, NoRedirect when it
\* returns null
libraryLoader(libs, libraryId) ==
    LET library == find(libs, libraryId)
        firstLibrary == first(libs)
    IN  IF library = Null
        THEN IF firstLibrary # Null THEN Library(firstLibrary) ELSE Onboarding
        ELSE NoRedirect

\* useContextValue().library of the onboarding layout
onboardingLibrary(libs, cacheId) ==
    IF find(libs, cacheId) # Null THEN find(libs, cacheId) ELSE first(libs)

\* The window at rest on the page of its one library
WindowAtRest ==
    /\ libraries = <<1>>
    /\ currentLibraryCache = 1
    /\ isLoading = FALSE
    /\ pathname = Library(1)
    /\ requested = Index
    /\ navigation = "idle"
    /\ redirects = 1
    /\ broken = {}
    /\ wasRenderingError = FALSE
    /\ screen = "app"
    /\ effectPending = FALSE
    /\ timer = FALSE

\* The document loads at route: React mounts, BetterErrorBoundary's effect
\* sets its timeout, and the router starts at the route
load(route) ==
    /\ pathname' = route
    /\ requested' = route
    /\ navigation' = "loading"
    /\ redirects' = 0
    /\ isLoading' = TRUE
    /\ screen' = "app"
    /\ effectPending' = FALSE
    /\ timer' = TRUE

\* The window opens at '/' with any cached libraries, any cached current
\* library and at most one page that throws
WindowInit ==
    /\ libraries \in LibraryLists
    /\ currentLibraryCache \in LibraryIds \cup {Null}
    /\ broken \in {{}} \cup {{route} : route \in Routes \ {Index}}
    /\ wasRenderingError = FALSE
    /\ pathname = Index
    /\ requested = Index
    /\ navigation = "loading"
    /\ redirects = 0
    /\ isLoading = TRUE
    /\ screen = "app"
    /\ effectPending = FALSE
    /\ timer = TRUE

\* The route handlers run while the router outlet is rendered
Routing == screen = "app" /\ navigation = "loading"

\* A redirect of the navigation in progress
redirect(route) ==
    /\ pathname' = route
    /\ redirects' = redirects + 1
    /\ UNCHANGED <<navigation, requested>>

\* The navigation ends on the route it is at
settle ==
    /\ navigation' = "idle"
    /\ UNCHANGED <<pathname, redirects, requested>>

\* The user asks for a route
Go(route) ==
    /\ screen = "app" /\ navigation = "idle"
    /\ pathname' = route
    /\ requested' = route
    /\ navigation' = "loading"
    /\ redirects' = 0
    /\ UNCHANGED <<libraries, currentLibraryCache, isLoading, errorVars,
                   gridVars, openVars, tabVars>>

\* The index route: its loader always redirects
IndexRoute ==
    /\ Routing /\ pathname = Index
    /\ redirect(indexLoader(libraries, currentLibraryCache))
    /\ UNCHANGED <<libraries, currentLibraryCache, isLoading, errorVars,
                   gridVars, openVars, tabVars>>

\* The route ':libraryId': its loader redirects or lets the layout render
LibraryRoute ==
    /\ Routing /\ pathname.path = "/:libraryId"
    /\ \E to \in {libraryLoader(libraries, pathname.libraryId)} :
          IF to # NoRedirect THEN redirect(to) ELSE settle
    /\ UNCHANGED <<libraries, currentLibraryCache, isLoading, errorVars,
                   gridVars, openVars, tabVars>>

\* The onboarding layout: null while the libraries load, then a Navigate to
\* the library or the onboarding screens
OnboardingRoute ==
    /\ Routing /\ pathname = Onboarding
    /\ ~isLoading
    /\ \E library \in {onboardingLibrary(libraries, currentLibraryCache)} :
          IF library # Null THEN redirect(Library(library)) ELSE settle
    /\ UNCHANGED <<libraries, currentLibraryCache, isLoading, errorVars,
                   gridVars, openVars, tabVars>>

\* The query of the cached libraries resolves
LibrariesLoaded ==
    /\ isLoading
    /\ isLoading' = FALSE
    /\ UNCHANGED <<libraries, currentLibraryCache, pathname, requested,
                   navigation, redirects, errorVars, gridVars, openVars,
                   tabVars>>

\* The page of the route throws while it renders: RouterErrorBoundary
\* renders ErrorPage, whose redirecting state is the flag as the first
\* render reads it; the page returns null when it is set
Crash ==
    /\ screen = "app" /\ navigation = "idle"
    /\ pathname \in broken
    /\ screen' = IF wasRenderingError THEN "blank" ELSE "error"
    /\ effectPending' = TRUE
    /\ UNCHANGED <<broken, wasRenderingError, timer, routeVars, gridVars,
                   openVars, tabVars>>

\* The effect of ErrorPage reads the flag again
ErrorPageEffect ==
    /\ effectPending
    /\ IF wasRenderingError
       THEN /\ wasRenderingError' = FALSE
            /\ load(Index)
       ELSE /\ effectPending' = FALSE
            /\ UNCHANGED <<wasRenderingError, screen, timer, pathname,
                           requested, navigation, redirects, isLoading>>
    /\ UNCHANGED <<libraries, currentLibraryCache, broken, gridVars, openVars,
                   tabVars>>

\* The Reload button of RouterErrorBoundary
reloadBtn ==
    /\ screen = "error"
    /\ wasRenderingError' = TRUE
    /\ load(pathname)
    /\ UNCHANGED <<libraries, currentLibraryCache, broken, gridVars, openVars,
                   tabVars>>

\* The timeout of BetterErrorBoundary, one second after it mounted
Timeout ==
    /\ timer
    /\ timer' = FALSE
    /\ wasRenderingError' = FALSE
    /\ UNCHANGED <<broken, screen, effectPending, routeVars, gridVars,
                   openVars, tabVars>>

-----------------------------------------------------------------------------
(* The desktop shell: AppInner's tabs.  A tab is a record of its id, the    *)
(* currentIndex and maxIndex the shell keeps for it, and its memory         *)
(* history: history.index and the number of entries.  Positions in the tab  *)
(* list count from 0 as in the code.                                        *)

MaxTabs == 2
MaxCreated == 3
MaxHistory == 3
MaxUpdates == 2

\* No router event yet
NoEvent == [id |-> 0, state |-> "none"]

\* createTab(): a tab on a fresh memory history with one entry
createTab(id) ==
    [id |-> id, currentIndex |-> 0, maxIndex |-> 0, index |-> 0, length |-> 1]

\* routers.findIndex((r) => r.id === id)
findIndex(routers, id) ==
    IF \E k \in DOMAIN routers : routers[k].id = id
    THEN (CHOOSE k \in DOMAIN routers : routers[k].id = id) - 1
    ELSE 0 - 1

\* tabs.splice(index, 1)
spliceOut(arr, index) ==
    SubSeq(arr, 1, index) \o SubSeq(arr, index + 2, Len(arr))

Min(a, b) == IF a < b THEN a ELSE b

Max(a, b) == IF a > b THEN a ELSE b

\* useState(() => [createTab()]), useState(0)
TabsInit ==
    /\ tabs = <<createTab(1)>>
    /\ selectedTabIndex = 0
    /\ renderedTabIndex = 0
    /\ nextTabId = 2
    /\ updates = <<>>
    /\ routerEvent = NoEvent

\* The shell while the grid or the dispatcher is at work
ShellAtRest == TabsInit /\ WindowAtRest

\* The grid and the dispatcher while the shell is at work
GridAtRest ==
    /\ count = MinItems
    /\ columnCount = 2
    /\ top = 0
    /\ allowMultiSelect = TRUE
    /\ selectable = TRUE
    /\ dialogOpen = FALSE
    /\ quickPreviewOpen = FALSE
    /\ selectedItemHashes = {}
    /\ activeItem = Null
    /\ selectoUnselected = {}
    /\ selectoSelected = {}
    /\ selectoFirstColumn = Undef
    /\ selectoLastColumn = Undef
    /\ isDragSelecting = FALSE
    /\ dragFromThumbnail = FALSE
    /\ drag = NoDrag
    /\ last = Op("Init")
    /\ NothingOpened

\* TabsContext createTab: the updater of the transition appends a new tab
\* and selects it
CreateTab ==
    /\ nextTabId <= MaxCreated /\ Len(tabs) < MaxTabs
    /\ tabs' = Append(tabs, createTab(nextTabId))
    /\ selectedTabIndex' = Len(tabs)
    /\ nextTabId' = nextTabId + 1
    /\ UNCHANGED <<renderedTabIndex, updates, routerEvent, gridVars, openVars,
                   windowVars>>

\* TabsContext removeTab(index): the updater of the transition; the
\* selectedTabIndex it reads is the one of the render that made the closure
RemoveTab(index) ==
    /\ IF index + 1 \notin DOMAIN tabs
       THEN UNCHANGED <<tabs, selectedTabIndex>>
       ELSE /\ tabs' = spliceOut(tabs, index)
            /\ selectedTabIndex' = Min(renderedTabIndex, Len(tabs) - 2)
    /\ UNCHANGED <<renderedTabIndex, nextTabId, updates, routerEvent, gridVars,
                   openVars, windowVars>>

\* AppInner renders again: the closures of the context hold the current
\* selectedTabIndex
Render ==
    /\ renderedTabIndex # selectedTabIndex
    /\ renderedTabIndex' = selectedTabIndex
    /\ UNCHANGED <<tabs, selectedTabIndex, nextTabId, updates, routerEvent,
                   gridVars, openVars, windowVars>>

HistoryActions == {"PUSH", "POP", "REPLACE"}

\* The memory history of a tab after a navigation: a push adds an entry after
\* the current one and drops those beyond it, a pop moves by delta, a
\* replace stays
navigate(tab, historyAction, delta) ==
    CASE historyAction = "PUSH" ->
            [tab EXCEPT !.index = @ + 1, !.length = tab.index + 2]
      [] historyAction = "POP" -> [tab EXCEPT !.index = @ + delta]
      [] OTHER -> tab

\* A navigation of the tab at position i completes: its router gives the
\* subscriber an idle event, which queues a setTabs updater
Navigate(i, historyAction, delta) ==
    /\ i + 1 \in DOMAIN tabs /\ Len(updates) < MaxUpdates
    /\ historyAction = "PUSH" => tabs[i + 1].index + 1 < MaxHistory
    /\ historyAction = "POP" =>
          /\ tabs[i + 1].index + delta >= 0
          /\ tabs[i + 1].index + delta < tabs[i + 1].length
    /\ tabs' = [tabs EXCEPT ![i + 1] = navigate(@, historyAction, delta)]
    /\ updates' = Append(updates, [id |-> tabs[i + 1].id,
                                   historyAction |-> historyAction])
    /\ routerEvent' = [id |-> tabs[i + 1].id, state |-> "idle"]
    /\ UNCHANGED <<selectedTabIndex, renderedTabIndex, nextTabId, gridVars,
                   openVars, windowVars>>

\* The router of the tab at position i gives the subscriber an event whose
\* navigation is not idle (loading or submitting): the subscriber returns
NonIdleEvent(i, state) ==
    /\ i + 1 \in DOMAIN tabs
    /\ routerEvent' = [id |-> tabs[i + 1].id, state |-> state]
    /\ UNCHANGED <<tabs, selectedTabIndex, renderedTabIndex, nextTabId, updates,
                   gridVars, openVars, windowVars>>

\* The updater of router.subscribe that keeps maxIndex as it is when the
\* event is no push
subscribeUpdaterKeepsMax(routers, id, historyAction) ==
    LET index == findIndex(routers, id)
    IN  IF index = 0 - 1 THEN routers
        ELSE LET routerAtIndex == routers[index + 1]
             IN  [routers EXCEPT ![index + 1] =
                    [routerAtIndex EXCEPT
                        !.currentIndex = routerAtIndex.index,
                        !.maxIndex =
                            IF historyAction = "PUSH" THEN routerAtIndex.index
                            ELSE routerAtIndex.maxIndex]]

\* The updater of router.subscribe, for the tab id and the event's
\* historyAction; history.index is read when the updater runs
subscribeUpdater(routers, id, historyAction) ==
    LET index == findIndex(routers, id)
    IN  IF index = 0 - 1 THEN routers
        ELSE LET routerAtIndex == routers[index + 1]
             IN  [routers EXCEPT ![index + 1] =
                    [routerAtIndex EXCEPT
                        !.currentIndex = routerAtIndex.index,
                        !.maxIndex =
                            IF historyAction = "PUSH" THEN routerAtIndex.index
                            ELSE Max(routerAtIndex.maxIndex,
                                     routerAtIndex.index)]]

\* React runs the oldest queued updater
ApplyUpdate ==
    /\ updates # <<>>
    /\ tabs' = subscribeUpdater(tabs, Head(updates).id,
                                Head(updates).historyAction)
    /\ updates' = Tail(updates)
    /\ UNCHANGED <<selectedTabIndex, renderedTabIndex, nextTabId, routerEvent,
                   gridVars, openVars, windowVars>>

TabsSpecInit == GridAtRest /\ TabsInit /\ WindowAtRest

TabsNext ==
    \/ CreateTab
    \/ \E index \in 0 .. (MaxTabs - 1) : RemoveTab(index)
    \/ Render
    \/ \E i \in 0 .. (MaxTabs - 1), historyAction \in HistoryActions,
          delta \in {0 - 1, 1} : Navigate(i, historyAction, delta)
    \/ \E i \in 0 .. (MaxTabs - 1), state \in {"loading", "submitting"} :
          NonIdleEvent(i, state)
    \/ ApplyUpdate

SpecTabs == TabsSpecInit /\ [][TabsNext]_vars

\* The window alone: navigations, crashes and the error page
WindowSpecInit == GridAtRest /\ TabsInit /\ WindowInit

WindowNext ==
    \/ \E route \in Routes : Go(route)
    \/ IndexRoute
    \/ LibraryRoute
    \/ OnboardingRoute
    \/ LibrariesLoaded
    \/ Crash
    \/ ErrorPageEffect
    \/ reloadBtn
    \/ Timeout

SpecWindow == WindowSpecInit /\ [][WindowNext]_vars

-----------------------------------------------------------------------------
(* The grid: any interleaving of the operations on a small grid *)

GridColumns == 2

Init ==
    /\ count = MinItems
    /\ columnCount = GridColumns
    /\ top = 0
    /\ allowMultiSelect \in BOOLEAN
    /\ selectable = TRUE
    /\ dialogOpen = FALSE
    /\ quickPreviewOpen = FALSE
    /\ selectedItemHashes = {}
    /\ activeItem = Null
    /\ selectoUnselected = {}
    /\ selectoSelected = {}
    /\ selectoFirstColumn = Undef
    /\ selectoLastColumn = Undef
    /\ isDragSelecting = FALSE
    /\ dragFromThumbnail = FALSE
    /\ drag = NoDrag
    /\ last = Op("Init")
    /\ NothingOpened
    /\ ShellAtRest

\* Keys are pressed, modes change and the list changes between gestures
Idle ==
    /\ ~drag.on
    /\ \/ \E key \in Keys, shift \in BOOLEAN : ExplorerArrow(key, shift)
       \/ ExplorerDownEmpty
       \/ ExplorerEscape
       \/ \E n \in MinItems .. MaxItems : ItemsChange(n)
       \/ \E delta \in {0 - 1, 1} : Scroll(delta)
       \/ ToggleSelectable
       \/ ToggleDialog
       \/ ToggleQuickPreview

\* A click on an item: mouse down, then the end of the gesture
Click ==
    \/ \E i \in 0 .. (MaxItems - 1), shift \in BOOLEAN, onImage \in BOOLEAN :
          ItemMouseDown(i, 3, shift, onImage)
    \/ DragEnd
    \/ DragStop

Next == Idle \/ Click

Spec == Init /\ [][Next]_vars

-----------------------------------------------------------------------------
(* The marquee: drag gestures on a grid of four columns, starting in the   *)
(* second row, while the view scrolls                                      *)

DragColumns == 4

DragItems == 20

StartRow == 1

DragXs == {GapX(1), ColX(1)}

DragYs == {PointY(r, d) : r \in MountedRows, d \in GridOffsets}

DragInit ==
    /\ count = DragItems
    /\ columnCount = DragColumns
    /\ top \in {t \in 0 .. MaxTop(DragItems, DragColumns) :
                 StartRow \in t .. (t + ViewRows - 1)}
    /\ allowMultiSelect = TRUE
    /\ selectable = TRUE
    /\ dialogOpen = FALSE
    /\ quickPreviewOpen = FALSE
    /\ selectedItemHashes = {}
    /\ activeItem = Null
    /\ selectoUnselected = {}
    /\ selectoSelected = {}
    /\ selectoFirstColumn = Undef
    /\ selectoLastColumn = Undef
    /\ isDragSelecting = FALSE
    /\ dragFromThumbnail = FALSE
    /\ drag = NoDrag
    /\ last = Op("Init")
    /\ NothingOpened
    /\ ShellAtRest

\* A gesture starts in the start row, on an item or beside it, from an empty
\* selection
DragStart ==
    /\ selectedItemHashes = {}
    /\ \/ \E x \in DragXs, d \in YOffsets, shift \in BOOLEAN :
             EmptyMouseDown(x, PointY(StartRow, d), shift)
       \/ \E x \in {v \in DragXs : OnItemX(v)}, dy \in ItemOffsets,
             shift \in BOOLEAN :
             ItemMouseDown(ItemAt(x, PointY(StartRow, dy)), dy, shift, FALSE)

DragNext ==
    \/ DragStart
    \/ \E x \in DragXs, y \in DragYs : DragMove(x, y)
    \/ \E delta \in {0 - 1, 1} : DragScroll(delta)
    \/ DragEnd
    \/ DragStop

SpecDrag == DragInit /\ [][DragNext]_vars

-----------------------------------------------------------------------------
(* The dispatcher: double clicks on selections of up to MaxSelected items *)

OpenInit ==
    /\ count = MinItems
    /\ columnCount = GridColumns
    /\ top = 0
    /\ allowMultiSelect = TRUE
    /\ selectable = TRUE
    /\ dialogOpen = FALSE
    /\ quickPreviewOpen = FALSE
    /\ selectedItemHashes = {}
    /\ activeItem = Null
    /\ selectoUnselected = {}
    /\ selectoSelected = {}
    /\ selectoFirstColumn = Undef
    /\ selectoLastColumn = Undef
    /\ isDragSelecting = FALSE
    /\ dragFromThumbnail = FALSE
    /\ drag = NoDrag
    /\ last = Op("Init")
    /\ explorerSelectedItems = <<>>
    /\ openOnDoubleClick \in {"openFile", "quickPreview"}
    /\ platform \in [openFilePaths : BOOLEAN, openEphemeralFiles : BOOLEAN]
    /\ opened = NotCalled
    /\ ShellAtRest

OpenNext ==
    \/ \E i \in ExplorerItems : SelectItem(i)
    \/ \E item \in ExplorerItems \cup {NoItem}, failedPaths \in BOOLEAN,
          failed \in BOOLEAN :
          DoubleClick(item, failedPaths, failed)

SpecOpen == OpenInit /\ [][OpenNext]_vars

-----------------------------------------------------------------------------
(* The marquee across columns: gestures over a grid of two mounted rows of  *)
(* four columns, to the left and to the right                               *)

SweepItems == 8

SweepXs == {ColX(c) : c \in 0 .. (DragColumns - 1)} \cup {GapX(2)}

SweepYs == {PointY(r, 3) : r \in 0 .. 1}

SweepInit ==
    /\ count = SweepItems
    /\ columnCount = DragColumns
    /\ top = 0
    /\ allowMultiSelect = TRUE
    /\ selectable = TRUE
    /\ dialogOpen = FALSE
    /\ quickPreviewOpen = FALSE
    /\ selectedItemHashes = {}
    /\ activeItem = Null
    /\ selectoUnselected = {}
    /\ selectoSelected = {}
    /\ selectoFirstColumn = Undef
    /\ selectoLastColumn = Undef
    /\ isDragSelecting = FALSE
    /\ dragFromThumbnail = FALSE
    /\ drag = NoDrag
    /\ last = Op("Init")
    /\ NothingOpened
    /\ ShellAtRest

\* A gesture starts in the first row, on an item or in the gap left of
\* column 2, from an empty selection
SweepStart ==
    /\ selectedItemHashes = {}
    /\ \/ EmptyMouseDown(GapX(2), PointY(0, 3), FALSE)
       \/ \E c \in 0 .. (DragColumns - 1), shift \in BOOLEAN :
             ItemMouseDown(c, 3, shift, FALSE)

SweepNext ==
    \/ SweepStart
    \/ \E x \in SweepXs, y \in SweepYs : DragMove(x, y)
    \/ DragEnd

SpecSweep == SweepInit /\ [][SweepNext]_vars

-----------------------------------------------------------------------------
(* Claims about the marquee *)

\* The rectangle of the gesture covers column c and no other column
SweepsColumn(c) ==
    /\ RectLeft(drag) <= ColX(c) /\ ColX(c) <= RectRight(drag)
    /\ \A o \in 0 .. (columnCount - 1) :
          o # c => ColX(o) < RectLeft(drag) \/ ColX(o) > RectRight(drag)

\* The rectangle of the gesture touches the rows r1 .. r2 and no other row
SweepsRows(r1, r2) ==
    \A r \in 0 .. (RowCount - 1) :
        (RowTop(r) <= RectBottom(drag) /\ RowBottom(r) >= RectTop(drag))
            <=> (r1 <= r /\ r <= r2)

\* A gesture without shift, started from an empty selection, whose rectangle
\* covers rows 1 to 4 of column 1 only
SweepColumnOne ==
    /\ drag.on /\ ~drag.shift
    /\ columnCount = 4
    /\ SweepsColumn(1) /\ SweepsRows(1, 4)

\* C8: in a grid of four columns, after the ticks of a drag without shift
\* whose rectangle sweeps rows 1 to 4 of column 1 only, the Selection Set is
\* exactly the items 5, 9, 13 and 17, whichever of the rows are mounted.
C8_DragColumnSpan ==
    SweepColumnOne => selectedItems = {5, 9, 13, 17}

-----------------------------------------------------------------------------
(* Claims about the selection and its anchor *)

\* C1: in every reachable state of the grid, when the Selection Set is not
\* empty the active anchor is not null and is a member of the Selection Set.
C1_AnchorMembership ==
    selectedItems # {} => activeItem # Null /\ activeItem \in selectedItems

\* The last step was an operation that selects an item: a mouse down on an
\* item, or an arrow shortcut that moved the anchor
SelectingOp ==
    \/ last.op = "MouseDown"
    \/ last.op \in Keys \cup {"DownEmpty"} /\ activeItem # last.from

\* C2: with multi-select disabled the Selection Set has at most one member
\* after any sequence of grid operations, it has exactly one member after an
\* operation that selects an item, and it becomes empty only by the escape
\* shortcut.
C2_SingleSelect ==
    /\ [](~allowMultiSelect =>
            /\ Cardinality(selectedItemHashes) <= 1
            /\ SelectingOp => Cardinality(selectedItems) = 1)
    /\ [][~allowMultiSelect /\ selectedItemHashes # {} /\ selectedItemHashes' = {}
            => last'.op = "Escape"]_vars

\* An arrow shortcut has moved a single selection to the next item
C2_Witness ==
    /\ ~allowMultiSelect
    /\ last.op = "ArrowRight" /\ last.from = 0
    /\ selectedItems = {1} /\ activeItem = 1

-----------------------------------------------------------------------------
(* Claims about the keyboard shortcuts.  A step of a shortcut is recognised  *)
(* by the operation it records; its precondition is read in the state       *)
(* before the step and its effect in the state after it.                    *)

\* The index an arrow shortcut aims at from the anchor i
ArrowTarget(op, i) ==
    CASE op = "ArrowUp" -> i - columnCount
      [] op = "ArrowDown" -> i + columnCount
      [] op = "ArrowLeft" -> i - 1
      [] op = "ArrowRight" -> i + 1
      [] OTHER -> Undef

\* The active anchor is an item of the list
Anchored == activeItem # Null /\ ItemExists(activeItem)

\* The shortcuts are not switched off
ShortcutsRun == selectable /\ ~dialogOpen

\* The handler can reach the item j: it exists and, with multi-select
\* enabled, its element is mounted
Reachable(j) == ItemExists(j) /\ (allowMultiSelect => Mounted(j))

\* C3 as stated: pressing left when the anchor is at column 0 of its row, in
\* any row, leaves the Selection Set and the anchor unchanged.
C3_LeftNeverWraps ==
    [][(last'.op = "ArrowLeft" /\ Anchored /\ ColumnOf(activeItem) = 0)
          => selectedItems' = selectedItems /\ activeItem' = activeItem]_vars

\* C3: pressing left when the anchor is the first item of the list leaves
\* the Selection Set and the anchor unchanged; at column 0 of a later row the
\* shortcut aims at the last item of the row above, and without shift it
\* replaces the Selection Set with that item.
C3_LeftAtFirstItem ==
    [][last'.op = "ArrowLeft" =>
          /\ activeItem = 0
                => selectedItems' = selectedItems /\ activeItem' = activeItem
          /\ (/\ Anchored /\ activeItem > 0 /\ ColumnOf(activeItem) = 0
              /\ ~last'.shift /\ ShortcutsRun /\ Reachable(activeItem - 1))
                => selectedItems' = {activeItem - 1}
                   /\ activeItem' = activeItem - 1]_vars

\* Left was pressed at column 0 of a later row and the selection went to the
\* last item of the row above
C3_Witness ==
    /\ last.op = "ArrowLeft" /\ ~last.shift
    /\ last.from > 0 /\ ColumnOf(last.from) = 0
    /\ activeItem = last.from - 1 /\ selectedItems = {activeItem}

\* An arrow shortcut is pressed with shift, with multi-select enabled, from an
\* anchor whose target exists and is mounted
ShiftArrowStep ==
    /\ last'.op \in Keys /\ last'.shift
    /\ allowMultiSelect /\ Anchored
    /\ ItemExists(ArrowTarget(last'.op, activeItem))
    /\ Mounted(ArrowTarget(last'.op, activeItem))

\* C4 as stated: with multi-select enabled and quick-preview open, Shift+arrow
\* towards an existing, mounted item leaves the Selection Set unchanged.
C4_ShiftSuppressed ==
    [][(ShiftArrowStep /\ quickPreviewOpen)
          => selectedItems' = selectedItems]_vars

\* C4: with multi-select enabled and quick-preview open, Shift+arrow towards
\* an existing, mounted item acts as the arrow without shift: it replaces the
\* Selection Set with exactly the target and makes the target the anchor.
C4_QuickPreviewReplaces ==
    [][(ShiftArrowStep /\ quickPreviewOpen /\ ShortcutsRun)
          => /\ selectedItems' = {ArrowTarget(last'.op, activeItem)}
             /\ activeItem' = ArrowTarget(last'.op, activeItem)]_vars

\* Shift+ArrowRight was pressed with quick-preview open from the anchor 3 and
\* the selection is the item 4 alone
C4_Witness ==
    /\ allowMultiSelect /\ quickPreviewOpen
    /\ last.op = "ArrowRight" /\ last.shift /\ last.from = 3
    /\ selectedItems = {4} /\ activeItem = 4

\* C5 as stated: from any state with a non-empty Selection Set the escape
\* shortcut leads to an empty Selection Set, a null anchor and an empty
\* shadow set.
C5_EscapeAlwaysClears ==
    [][(last'.op = "Escape" /\ selectedItems # {})
          => /\ selectedItems' = {} /\ activeItem' = Null
             /\ selectoUnselected' = {}]_vars

\* C5: from any state of a selectable view with a non-empty Selection Set the
\* escape shortcut leads to an empty Selection Set, a null anchor and an
\* empty shadow set; in a view that is not selectable it changes nothing.
C5_EscapeClears ==
    [][last'.op = "Escape" =>
          /\ (selectedItems # {} /\ selectable)
                => /\ selectedItems' = {} /\ activeItem' = Null
                   /\ selectoUnselected' = {}
          /\ ~selectable
                => UNCHANGED <<selectedItemHashes, activeItem,
                               selectoUnselected>>]_vars

\* Escape was pressed with an anchor and has cleared the selection
C5_Witness ==
    /\ last.op = "Escape" /\ last.from # Null /\ selectable
    /\ selectedItemHashes = {} /\ activeItem = Null /\ selectoUnselected = {}

\* An arrow shortcut is pressed without shift, with a non-empty selection,
\* from an anchor whose target exists
PlainArrowStep ==
    /\ last'.op \in Keys /\ ~last'.shift
    /\ selectedItems # {} /\ Anchored
    /\ ItemExists(ArrowTarget(last'.op, activeItem))

\* C6 as stated: with a non-empty selection and no shift, an arrow shortcut
\* whose target item exists replaces the Selection Set with exactly the
\* target and makes the target the anchor.
C6_ArrowAlwaysReplaces ==
    [][PlainArrowStep
          => /\ selectedItems' = {ArrowTarget(last'.op, activeItem)}
             /\ activeItem' = ArrowTarget(last'.op, activeItem)]_vars

\* C6: in a selectable view with no dialog open, with a non-empty selection
\* and no shift, an arrow shortcut whose target item exists (and, with
\* multi-select enabled, is mounted) replaces the Selection Set with exactly
\* the target and makes the target the anchor.
C6_ArrowReplaces ==
    [][(PlainArrowStep /\ ShortcutsRun
            /\ Reachable(ArrowTarget(last'.op, activeItem)))
          => /\ selectedItems' = {ArrowTarget(last'.op, activeItem)}
             /\ activeItem' = ArrowTarget(last'.op, activeItem)]_vars

\* ArrowDown was pressed without shift and the selection is the item one row
\* below the old anchor
C6_Witness ==
    /\ last.op = "ArrowDown" /\ ~last.shift /\ last.from # Null
    /\ activeItem = last.from + columnCount /\ selectedItems = {activeItem}

\* C7 as stated: with multi-select enabled, quick-preview closed and shift
\* held, an arrow shortcut whose target item exists adds the target to the
\* Selection Set, removes no member and makes the target the anchor.
C7_ShiftAlwaysExtends ==
    [][(/\ last'.op \in Keys /\ last'.shift
        /\ allowMultiSelect /\ ~quickPreviewOpen /\ Anchored
        /\ ItemExists(ArrowTarget(last'.op, activeItem)))
          => /\ selectedItems'
                  = selectedItems \cup {ArrowTarget(last'.op, activeItem)}
             /\ activeItem' = ArrowTarget(last'.op, activeItem)]_vars

\* C7: in a selectable view with no dialog open, with multi-select enabled,
\* quick-preview closed and shift held, an arrow shortcut whose target item
\* exists and is mounted adds the target to the Selection Set, removes no
\* member and makes the target the anchor.
C7_ShiftExtends ==
    [][(ShiftArrowStep /\ ~quickPreviewOpen /\ ShortcutsRun)
          => /\ selectedItems'
                  = selectedItems \cup {ArrowTarget(last'.op, activeItem)}
             /\ activeItem' = ArrowTarget(last'.op, activeItem)]_vars

\* Shift+ArrowRight was pressed with quick-preview closed from the anchor 3
\* and the selection is the items 3 and 4
C7_Witness ==
    /\ allowMultiSelect /\ ~quickPreviewOpen
    /\ last.op = "ArrowRight" /\ last.shift /\ last.from = 3
    /\ selectedItems = {3, 4} /\ activeItem = 4

-----------------------------------------------------------------------------
(* Claims about the double-click dispatcher *)

\* The actions that open something: a platform file open, the quick preview,
\* a navigation
OpenActions ==
    SelectSeq(opened.actions,
              LAMBDA a : a.action \in {"openFilePaths", "openEphemeralFiles",
                                       "quickPreview", "setSearchParams",
                                       "navigateLocation", "navigatePath",
                                       "navigateSearch"})

\* The first non-empty bucket in the order files, directories, locations,
\* non-indexed, label
DominantBucket ==
    IF opened.items.paths # <<>> THEN "files"
    ELSE IF opened.items.dirs # <<>> THEN "directories"
    ELSE IF opened.items.locations # <<>> THEN "locations"
    ELSE IF opened.items.non_indexed # <<>> THEN "non-indexed"
    ELSE IF opened.item # NoItem /\ type(opened.item) = "Label" THEN "label"
    ELSE "none"

\* The buckets an open action can belong to
BucketsOf(a) ==
    CASE a.action = "openFilePaths" -> {"files"}
      [] a.action = "quickPreview" -> {"files", "non-indexed"}
      [] a.action = "setSearchParams" -> {"directories"}
      [] a.action = "navigateLocation" -> {"locations"}
      [] a.action \in {"navigatePath", "openEphemeralFiles"} -> {"non-indexed"}
      [] a.action = "navigateSearch" -> {"label"}

\* C9: for any non-empty selection, one double-click dispatches exactly one
\* open action, decided by the first non-empty bucket in the order files,
\* directories, locations, non-indexed, label, and no action of a bucket of
\* lower priority.  Stated where the claim is at its strongest: the clicked
\* item is part of the selection, the setting is openFile, the platform has
\* both of its open actions and some bucket is not empty.
C9_ExactlyOneOpenAction ==
    (/\ opened.called /\ explorerSelectedItems # <<>>
     /\ opened.item \in Range(explorerSelectedItems)
     /\ openOnDoubleClick = "openFile"
     /\ platform.openFilePaths /\ platform.openEphemeralFiles
     /\ DominantBucket # "none")
        => /\ Len(OpenActions) = 1
           /\ \A k \in DOMAIN OpenActions :
                 DominantBucket \in BucketsOf(OpenActions[k])

\* The bucket an item is put in, or "none"
BucketOf(i) ==
    IF type(i) = "Location" THEN "locations"
    ELSE IF type(i) = "NonIndexedPath" THEN "non_indexed"
    ELSE IF type(i) \in {"SpacedropPeer", "Label"} THEN "none"
    ELSE IF is_dir(i) THEN "dirs"
    ELSE "paths"

\* The bucket of the clicked item after the partition
ClickedBucket == opened.items[BucketOf(opened.item)]

\* The clicked item is part of the selection and has a bucket
ClickedInSelection ==
    /\ opened.called
    /\ opened.item \in Range(explorerSelectedItems)
    /\ BucketOf(opened.item) # "none"

\* C10: after the partition, a clicked item that is part of the selection is
\* the first element of its bucket, for every iteration order of the
\* selection, and the other items of the bucket keep their relative order
\* behind it; a directory navigation goes to the clicked directory.
C10_ClickedFirst ==
    ClickedInSelection =>
        /\ ClickedBucket[1] = opened.item
        /\ SelectSeq(ClickedBucket, LAMBDA j : j # opened.item)
              = SelectSeq(explorerSelectedItems,
                          LAMBDA j : /\ j # opened.item
                                     /\ BucketOf(j) = BucketOf(opened.item))
        /\ \A k \in DOMAIN opened.actions :
              (opened.actions[k].action = "setSearchParams" /\ is_dir(opened.item))
                  => opened.actions[k].args = <<opened.item>>

\* C11: a double-click when the selection is exactly one directory item
\* dispatches exactly one navigation, to the path of that directory, and
\* neither openFilePaths nor openEphemeralFiles nor the quick preview, in
\* every openOnDoubleClick mode.
C11_SingleDirectory ==
    (/\ opened.called
     /\ Len(explorerSelectedItems) = 1
     /\ explorerSelectedItems[1] \in Directories)
        => opened.actions
              = <<Act("setSearchParams", <<explorerSelectedItems[1]>>)>>

\* A directory that is the whole selection was double-clicked in the
\* quickPreview mode and the one action is the navigation to it
C11_Witness ==
    /\ opened.called /\ openOnDoubleClick = "quickPreview"
    /\ explorerSelectedItems = <<4>> /\ opened.item = 4
    /\ opened.actions = <<Act("setSearchParams", <<4>>)>>

-----------------------------------------------------------------------------
(* Claims about the mouse.  A mouse down on an item is the step that        *)
(* records "MouseDown"; with multi-select enabled it starts a gesture, whose *)
(* start point and shift key tell the item and the modifier.                 *)

\* The step is a mouse down on a grid item
MouseDownStep == ~drag.on /\ last'.op = "MouseDown"

\* The step is a mouse down that Selecto handles, with or without shift
SelectoDownStep(shift) ==
    MouseDownStep /\ allowMultiSelect /\ drag'.on /\ drag'.shift = shift

\* The item under the mouse down of a Selecto step
DownItem == ItemAt(drag'.sx, drag'.sy)

\* C12: while the quick preview is open, a mouse down with shift on an item
\* that is not selected does not add it: the Selection Set is unchanged.
C12_ShiftClickSuppressed ==
    [][(SelectoDownStep(TRUE) /\ quickPreviewOpen
            /\ DownItem \notin selectedItems)
          => selectedItems' = selectedItems]_vars

\* C13: with multi-select enabled, a mouse down without shift on a member of
\* a Selection Set of several items leaves the Selection Set unchanged and
\* restores Selecto's selected targets to those before the click; on an item
\* that is not a member it replaces the Selection Set with exactly that item
\* and empties the shadow set.
C13_PlainMouseDown ==
    [][SelectoDownStep(FALSE) =>
          /\ (DownItem \in selectedItems /\ Cardinality(selectedItems) >= 2)
                => /\ selectedItems' = selectedItems
                   /\ selectoSelected' = selectoSelected
          /\ DownItem \notin selectedItems
                => /\ selectedItems' = {DownItem}
                   /\ selectoUnselected' = {}]_vars

\* A mouse down without shift fell on a member of a selection of several
\* items, all of them Selecto's targets: the selection and the targets are
\* what they were before the click
C13_Witness ==
    /\ allowMultiSelect /\ last.op = "MouseDown" /\ drag.on /\ ~drag.shift
    /\ ItemAt(drag.sx, drag.sy) \in selectedItems
    /\ Cardinality(selectedItems) >= 2
    /\ selectoSelected = drag.startSel /\ selectoSelected = selectedItems

\* C14: with multi-select disabled and the view selectable, a mouse down with
\* the primary button on a grid item makes the Selection Set exactly that
\* item and makes it the anchor, whatever the selection before and whatever
\* the modifier keys; no drag-select gesture starts in this mode.
C14_SingleSelectMouseDown ==
    [][(MouseDownStep /\ ~allowMultiSelect) =>
          /\ selectedItems' = {last'.item}
          /\ activeItem' = last'.item
          /\ ~drag'.on /\ ~isDragSelecting' /\ selectoSelected' = {}]_vars

\* With multi-select disabled a mouse down with shift fell on item 1, which
\* is now the whole selection and the anchor
C14_Witness ==
    /\ ~allowMultiSelect /\ selectable
    /\ last.op = "MouseDown" /\ last.shift /\ last.item = 1
    /\ selectedItems = {1} /\ activeItem = 1 /\ ~drag.on

-----------------------------------------------------------------------------
(* Further claims about the keyboard shortcuts *)

\* C15: pressing down when the Selection Set is empty, the view is selectable,
\* no dialog is open and the list is not empty makes the Selection Set
\* exactly item 0 and makes item 0 the anchor, whatever rows are mounted.
C15_DownBootstraps ==
    [][(/\ last'.op = "DownEmpty"
        /\ selectedItems = {} /\ ShortcutsRun /\ count > 0)
          => selectedItems' = {0} /\ activeItem' = 0]_vars

\* The index an arrow shortcut computes from the anchor has no item: the
\* anchor is stale (no longer in the list), or the index is below 0 or at or
\* past the item count
NoItemAtNewIndex(op) ==
    \/ activeItem # Null /\ ~ItemExists(activeItem)
    \/ Anchored /\ ArrowTarget(op, activeItem) < 0
    \/ Anchored /\ ArrowTarget(op, activeItem) >= count

\* C16: if the index computed for an arrow shortcut has no item (below 0, at
\* or past the item count, or the anchor is stale) the keypress changes
\* nothing: the Selection Set, the anchor and the shadow set are unchanged.
C16_NoItemNoOp ==
    [][(last'.op \in Keys /\ NoItemAtNewIndex(last'.op))
          => /\ selectedItemHashes' = selectedItemHashes
             /\ activeItem' = activeItem
             /\ selectoUnselected' = selectoUnselected]_vars

\* Right was pressed in a running view from the last item of the list, which
\* is still the anchor and the whole selection
C16_Witness ==
    /\ ShortcutsRun
    /\ last.op = "ArrowRight" /\ last.from = count - 1
    /\ activeItem = last.from /\ selectedItems = {activeItem}

\* C17: none of the shortcuts up, down, left, right and escape changes the
\* Selection Set or the anchor when the view is not selectable or when a
\* blocking dialog is open.
C17_ShortcutsSwitchedOff ==
    [][(/\ last'.op \in Keys \cup {"DownEmpty", "Escape"}
        /\ ~selectable \/ dialogOpen)
          => selectedItems' = selectedItems /\ activeItem' = activeItem]_vars

-----------------------------------------------------------------------------
(* Claims about the phases of the drag controller.  The controller is in a  *)
(* gesture from Selecto's drag start (the mouse down) to its drag end or    *)
(* stop, and idle otherwise.                                                *)

\* The controller is idle: no gesture is in progress
IdlePhase == ~drag.on

\* C18: the observable state of the drag controller matches its phase in
\* every reachable state: isDragSelecting is true exactly during a gesture,
\* and whenever the controller is idle (before any drag, after a drag end,
\* after a drag stopped for an item drag) isDragSelecting is false, the first
\* and last columns are undefined and the drag-from-thumbnail flag is false.
C18_PhaseMatchesState ==
    /\ isDragSelecting <=> ~IdlePhase
    /\ IdlePhase => /\ ~isDragSelecting
                    /\ selectoFirstColumn = Undef /\ selectoLastColumn = Undef
                    /\ ~dragFromThumbnail

\* A gesture that began on an item was stopped for an item drag: the
\* controller is idle with its flags cleared and the item still selected
C18_Witness ==
    /\ last.op = "DragStop" /\ IdlePhase /\ selectedItems # {}
    /\ ~isDragSelecting /\ ~dragFromThumbnail
    /\ selectoFirstColumn = Undef /\ selectoLastColumn = Undef

\* The step ends a gesture: Selecto's drag end, or its stop for an item drag
DragEndStep == drag.on /\ last'.op \in {"DragEnd", "DragStop"}

\* C19: on drag end the anchor becomes the selected item of least grid index
\* among all the selected items; it is null only if nothing is selected.
C19_DragEndAnchor ==
    [][(DragEndStep /\ selectedItems' # {})
          => activeItem' = SetMin(selectedItems')]_vars

-----------------------------------------------------------------------------
(* Claims about failures of the platform's open actions *)

\* The call of the platform action a is followed at once by the error toast
ToastFollows(actions, a) ==
    \A k \in DOMAIN actions :
        actions[k].action = a
            => k < Len(actions) /\ actions[k + 1].action = "toast"

\* C20: if openFilePaths or openEphemeralFiles rejects during a double click,
\* doubleClick catches the failure and emits an error toast, it does not
\* throw to its caller, and it leaves the Selection Set unchanged.
C20_OpenFailure ==
    [][(~opened.called /\ opened'.called /\ opened'.rejected # {}) =>
          /\ \A a \in opened'.rejected : ToastFollows(opened'.actions, a)
          /\ \A k \in DOMAIN opened'.actions :
                opened'.actions[k].action # "throw"
          /\ explorerSelectedItems' = explorerSelectedItems
          /\ selectedItemHashes' = selectedItemHashes]_vars

\* openFilePaths was called for two selected files and rejected, and the
\* error toast is the next thing doubleClick did
C20_Witness ==
    /\ opened.called /\ opened.rejected = {"openFilePaths"}
    /\ explorerSelectedItems = <<1, 2>> /\ opened.item = 2
    /\ opened.actions = <<Act("updateAccessTime", <<2, 1>>),
                          Act("openFilePaths", <<2, 1>>), Act("toast", <<>>)>>

-----------------------------------------------------------------------------
(* Claims about the Selection Model *)

\* C21: add and remove of the Selection Model are idempotent: in every
\* selection state and for every item x, add(x); add(x) gives the Selection
\* Set of add(x) and remove(x); remove(x) that of remove(x); adding a present
\* item and removing an absent one leave the set unchanged.
C21_Idempotent ==
    \A x \in 0 .. (MaxItems - 1) :
        LET S == selectedItemHashes
        IN  /\ addSelectedItem(addSelectedItem(S, x), x) = addSelectedItem(S, x)
            /\ removeSelectedItem(removeSelectedItem(S, x), x)
                  = removeSelectedItem(S, x)
            /\ x \in S => addSelectedItem(S, x) = S
            /\ x \notin S => removeSelectedItem(S, x) = S

\* A shift arrow has added an item to a selection that now has several
\* members, present and absent items both exist
C21_Witness ==
    /\ allowMultiSelect /\ last.op \in Keys /\ last.shift
    /\ activeItem \in selectedItemHashes
    /\ Cardinality(selectedItemHashes) >= 2
    /\ \E x \in 0 .. (count - 1) : x \notin selectedItemHashes

-----------------------------------------------------------------------------
(* Claims about the drag tick.  A step during a gesture in which Selecto's  *)
(* selected targets change is a tick that called onSelect with the targets  *)
(* added and removed; the same tick is invoked again by applying the        *)
(* handler, with the same arguments, in the state the step ends in.         *)

\* The step is a tick of a gesture that called onSelect
TickStep ==
    /\ drag.on /\ drag'.on
    /\ selectoSelected' # selectoSelected

\* C22: the drag-tick handler is idempotent: invoking it twice with the same
\* tick (same added and removed targets, rectangle, pointer and shift) leaves
\* the Selection Set and the shadow set as invoking it once does, also with
\* shift held and with rows synthesized by index arithmetic.
C22_TickIdempotent ==
    [][TickStep =>
          \A d \in {drag'} :
          \A added \in {selectoSelected' \ selectoSelected} :
          \A removed \in {selectoSelected \ selectoSelected'} :
          \A before \in {[Cur EXCEPT !.targets = selectoSelected', !.top = top']} :
          \A e0 \in (IF added # {} THEN added ELSE removed) :
             \A once \in {Tick(before, d, e0, added, removed)} :
                (once.sel = selectedItemHashes' /\ once.shadow = selectoUnselected'
                    /\ once.firstCol = selectoFirstColumn'
                    /\ once.lastCol = selectoLastColumn')
                  => \A twice \in {Tick(Cur, d, e0, added, removed)'} :
                        /\ twice.sel = selectedItemHashes'
                        /\ twice.shadow = selectoUnselected']_vars

\* C23: during a drag tick a target reported as removed whose element is no
\* longer in the document stays in the Selection Set and its id is added to
\* the shadow set; a removed target whose element is still in the document
\* is removed from the Selection Set and is not added to the shadow set.  The
\* id is in the shadow set after the tick whenever the Selection Set is not
\* empty then, as it is when the target was selected: the render of an empty
\* Selection Set resets the shadow set.
C23_RemovedTargets ==
    [][TickStep =>
          \A i \in selectoSelected \ selectoSelected' :
             ItemExists(i) =>
                IF MountedIn(count, columnCount, top', i)
                THEN /\ i \notin selectedItemHashes'
                     /\ uniqueId(i) \in selectoUnselected'
                            => uniqueId(i) \in selectoUnselected
                ELSE /\ i \in selectedItemHashes => i \in selectedItemHashes'
                     /\ selectedItemHashes' # {}
                            => uniqueId(i) \in selectoUnselected']_vars

\* The item a gesture began on has been scrolled out of the mounted rows
\* during the gesture: it is no target of Selecto, it is still selected and
\* its id is in the shadow set
C23_Witness ==
    /\ drag.on /\ OnItemX(drag.sx) /\ OnItemY(drag.sy)
    /\ \E i \in {ItemAt(drag.sx, drag.sy)} :
          /\ ItemExists(i) /\ ~Mounted(i)
          /\ i \in selectedItems /\ i \notin selectoSelected
          /\ uniqueId(i) \in selectoUnselected

\* The columns of the targets a tick added or removed
TickColumns ==
    {ColumnOf(i) : i \in {t \in (selectoSelected' \ selectoSelected)
                                  \cup (selectoSelected \ selectoSelected') :
                             ItemExists(t)}}

\* C24: when the targets added or removed in a drag tick span more than one
\* column, firstColumn and lastColumn become the smallest and the largest
\* column among them, ordered by the horizontal direction of the drag:
\* firstColumn <= lastColumn dragging right, firstColumn >= lastColumn
\* dragging left.
C24_ColumnsByDirection ==
    [][(TickStep /\ Cardinality(TickColumns) > 1) =>
          /\ {selectoFirstColumn', selectoLastColumn'}
                = {SetMin(TickColumns), SetMax(TickColumns)}
          /\ drag'.cx > drag'.sx => selectoFirstColumn' < selectoLastColumn'
          /\ drag'.cx < drag'.sx => selectoFirstColumn' > selectoLastColumn']_vars

\* A gesture that began on column 3 has moved left over columns 2 and 1 in
\* one tick: the first column is 2 and the last is 1
C24_Witness ==
    /\ drag.on /\ drag.sx = ColX(3) /\ drag.cx = ColX(1)
    /\ selectoFirstColumn > selectoLastColumn
    /\ selectoLastColumn = 1
    /\ {1, 2, 3} \subseteq {ColumnOf(i) : i \in selectoSelected}

-----------------------------------------------------------------------------
(* Claims about the effects *)

\* The ids of Selecto's targets and the shadow set are disjoint and together
\* they are the selected ids
Partitions(sel, targets, shadow) ==
    /\ SetOfIds(targets) \cap shadow = {}
    /\ SetOfIds(targets) \cup shadow = SetOfIds(sel)

\* The step changes the item list while Selecto exists and some id is
\* selected: the reconciliation effect runs
ReconcileStep ==
    count' # count /\ allowMultiSelect /\ selectedItemHashes # {}

\* C25: after the reconciliation effect has run with a non-empty set of
\* selected ids, the ids of Selecto's selected targets and the shadow set are
\* disjoint and their union is the set of selected ids.  This is so of the
\* effect's result, and of the state after the render when no later effect
\* of the render writes the shadow set or the targets.
C25_ReconcilePartitions ==
    [][ReconcileStep =>
          \A r \in {ReconcileEffect([Cur EXCEPT !.top = top'], count',
                                    columnCount, top')} :
             /\ Partitions(r.sel, r.targets, r.shadow)
             /\ (/\ selectedItems' # {}
                 /\ ~(quickPreviewOpen /\ Cardinality(selectedItems') = 1))
                   => Partitions(selectedItemHashes', selectoSelected',
                                 selectoUnselected')]_vars

\* After a change of the list one selected item is mounted and a target,
\* another is not mounted and its id is in the shadow set
C25_Witness ==
    /\ allowMultiSelect /\ ~drag.on /\ last.op = "Other"
    /\ \E i \in selectedItems : ~Mounted(i) /\ uniqueId(i) \in selectoUnselected
    /\ \E j \in selectedItems : Mounted(j) /\ j \in selectoSelected
    /\ Partitions(selectedItemHashes, selectoSelected, selectoUnselected)

-----------------------------------------------------------------------------
(* Claims about the tabs of the desktop shell *)

\* C26: after any sequence and interleaving of createTab and removeTab calls
\* the tab list is not empty and selectedTabIndex is a valid index into it,
\* so that the selected tab is defined.
C26_SelectedTabDefined ==
    /\ Len(tabs) >= 1
    /\ 0 <= selectedTabIndex /\ selectedTabIndex < Len(tabs)

\* The step runs the updater of an idle router event for a tab of the list
UpdateStep ==
    /\ updates # <<>> /\ updates' = Tail(updates)
    /\ findIndex(tabs, Head(updates).id) >= 0

\* C27: for every tab in every reachable state 0 <= currentIndex <= maxIndex;
\* an idle PUSH navigation sets both currentIndex and maxIndex to the history
\* index, any other idle navigation sets currentIndex to the history index
\* and never lowers maxIndex, and router events that are not idle change
\* neither.
C27_TabIndices ==
    /\ [](\A k \in DOMAIN tabs :
             0 <= tabs[k].currentIndex /\ tabs[k].currentIndex <= tabs[k].maxIndex)
    /\ [][UpdateStep =>
             \A k \in {findIndex(tabs, Head(updates).id) + 1} :
                /\ tabs'[k].currentIndex = tabs[k].index
                /\ IF Head(updates).historyAction = "PUSH"
                   THEN tabs'[k].maxIndex = tabs[k].index
                   ELSE tabs'[k].maxIndex >= tabs[k].maxIndex]_vars
    /\ [][(routerEvent' # routerEvent /\ routerEvent'.state # "idle")
             => tabs' = tabs]_vars

\* A tab that pushed an entry and went back: it is at index 0 of a history
\* whose maxIndex is 1, with no updater left to run
C27_Witness ==
    /\ updates = <<>>
    /\ \E k \in DOMAIN tabs :
          /\ tabs[k].index = 0 /\ tabs[k].length = 2
          /\ tabs[k].currentIndex = 0 /\ tabs[k].maxIndex = 1


-----------------------------------------------------------------------------
(* Claims about quick preview *)

\* The step opens quick preview while the Selection Set holds exactly one
\* item, so that the synchronisation effect passes its early returns
QuickPreviewSyncStep ==
    /\ ~quickPreviewOpen /\ quickPreviewOpen'
    /\ allowMultiSelect
    /\ Cardinality({i \in selectedItemHashes : ExistsIn(count, i)}) = 1

\* C28: when quick preview is open and the Selection Set holds exactly one
\* item, the synchronisation effect makes that item the active anchor; if the
\* item's element is not mounted it sets the shadow set to exactly
\* {uniqueId(item)}, and if it is mounted the widget's selected targets become
\* exactly that element and the shadow set is unchanged.
C28_QuickPreviewSync ==
    [][QuickPreviewSyncStep =>
          \A item \in {i \in selectedItemHashes : ExistsIn(count, i)} :
             /\ activeItem' = item
             /\ IF MountedIn(count, columnCount, top, item)
                THEN /\ selectoSelected' = {item}
                     /\ selectoUnselected' = selectoUnselected
                ELSE selectoUnselected' = {uniqueId(item)}]_vars


-----------------------------------------------------------------------------
(* Claims about the window *)

\* The step renders the error page for the first time
ErrorPageStep == screen = "app" /\ screen' # "app"

\* The step is a press of Reload on the error page
ReloadStep == screen = "error" /\ screen' = "app"

\* C29: the error page rendered while the flag 'was-rendering-error' is
\* present renders nothing, and a page that rendered nothing removes the flag
\* and redirects to '/': its redirect is pending while it is blank and leaves
\* the window at '/' without the flag.  Reload sets the flag, the timeout of
\* the error boundary is set at every load and removes the flag.  Hence the
\* user does not cycle between Reload and the error page for ever: from some
\* point on no Reload is pressed.
C29_ReloadLoopGuard ==
    /\ [][ErrorPageStep /\ wasRenderingError => screen' = "blank"]_vars
    /\ [](screen = "blank" => effectPending /\ wasRenderingError)
    /\ [][screen = "blank" /\ screen' # "blank"
             => ~wasRenderingError' /\ pathname' = Index]_vars
    /\ [][ReloadStep => wasRenderingError' /\ timer']_vars
    /\ [][timer /\ ~timer' => ~wasRenderingError']_vars
    /\ <>[][~ReloadStep]_vars


\* Some handler of the route of a navigation in progress can run
CanRoute ==
    ENABLED (IndexRoute \/ LibraryRoute \/ OnboardingRoute \/ LibrariesLoaded)

\* A navigation takes at most two redirects, and while it is in progress a
\* handler of its route can run and either redirects or ends it
RedirectsTerminate ==
    /\ redirects <= 2
    /\ Routing => CanRoute

\* The route of the cached current library when it exists, else of the first
\* library, else '/onboarding'
CurrentOrFirst ==
    IF \E k \in DOMAIN libraries : libraries[k] = currentLibraryCache
    THEN Library(currentLibraryCache)
    ELSE IF libraries # <<>> THEN Library(libraries[1]) ELSE Onboarding

\* C30 as claimed: for any cached libraries, any cached current library and
\* any requested route among '/', '/onboarding' and '/:libraryId' the chain
\* of redirects terminates, on the route of the cached current library when
\* it exists, else of the first library, and on '/onboarding' when there is
\* no library.
C30_AsClaimed ==
    /\ RedirectsTerminate
    /\ navigation = "idle" => pathname = CurrentOrFirst

\* C30: the chain of redirects terminates.  Requested at '/' or
\* '/onboarding' it ends on the route of the cached current library when it
\* exists, else of the first library, else on '/onboarding'; requested at
\* '/:libraryId' it ends on that route when the library exists, else on the
\* route of the first library, else on '/onboarding'.
C30_RedirectsEnd ==
    /\ RedirectsTerminate
    /\ navigation = "idle" =>
          pathname =
             IF requested.path = "/:libraryId"
             THEN IF \E k \in DOMAIN libraries :
                        libraries[k] = requested.libraryId
                  THEN requested
                  ELSE IF libraries # <<>> THEN Library(libraries[1])
                  ELSE Onboarding
             ELSE CurrentOrFirst

\* A request for the route of a library that does not exist has ended on the
\* first library although the cached current library exists and is another
C30_Witness ==
    /\ navigation = "idle" /\ screen = "app"
    /\ requested.path = "/:libraryId"
    /\ find(libraries, requested.libraryId) = Null
    /\ find(libraries, currentLibraryCache) # Null
    /\ currentLibraryCache # libraries[1]
    /\ pathname = Library(libraries[1])
    /\ redirects = 1


=============================================================================
